---- MODULE Spec2Model ----
(***************************************************************************)
(* Client portal (zonabxxx/client-zone): the cookie session, the login     *)
(* route, the session-protected routes, the quote response, the PDF route, *)
(* the paginated EAV listings and the batch translation.                   *)
(*                                                                         *)
(* Text is modelled as a sequence of symbols.  A symbol is a record        *)
(* [k, c, j]: k = "ch" is a character (or an atom of characters that no    *)
(* operation looks into) c; k = "b64" is the run of base64 characters that *)
(* encodes the JSON text of j; k = "b64esc" is that run with its '+' and   *)
(* '/' percent-escaped; k = "json" is the JSON text of j.                  *)
(***************************************************************************)
EXTENDS Integers, Sequences, FiniteSets, TLC

VARIABLES
    now,              \* Date.now(), in milliseconds
    shares,           \* table calculation_shares: share id -> row
    attributes,       \* table attributes (EAV): set of rows
    entities,         \* table entities (EAV): set of rows
    activities,       \* table calculation_activities, in insertion order
    webhooks,         \* requests sent to the main application, in order
    translationCache, \* the process-wide translation cache
    logoBase64Cache,  \* the process-wide logo of the PDF route, <<>> for null
    inflight,         \* the requests between two awaits: position and locals
    last              \* the last operation: its input and what it answered

vars == <<now, shares, attributes, entities, activities, webhooks,
          translationCache, logoBase64Cache, inflight, last>>

(***************************************************************************)
(* Bounds of the model.                                                    *)
(***************************************************************************)
MaxTicks == 3
MaxLog == 2
MaxTexts == 3
MaxRows == 3
MaxLimit == 3
MaxRequests == 2
MaxPrice == 1
MaxItems == 1
MaxAttrs == 2

\* One clock step: twelve hours, in milliseconds.
TickMs == 12 * 60 * 60 * 1000

(***************************************************************************)
(* Text.                                                                   *)
(***************************************************************************)
\* Every string of the program is a sequence of symbols; <<>> is the empty
\* string and also stands for a missing (undefined or NULL) string.
NoSession ==
    [customerId |-> <<>>, customerEntityId |-> <<>>, customerName |-> <<>>,
     email |-> <<>>, organizationId |-> <<>>, hasExpiresAt |-> FALSE,
     expiresAt |-> 0]

JNull == [kind |-> "null", s |-> <<>>]
JObj(s) == [kind |-> "object", s |-> s]

Ch(c) == [k |-> "ch", c |-> c, j |-> JNull]
B64(j) == [k |-> "b64", c |-> "", j |-> j]
B64Esc(j) == [k |-> "b64esc", c |-> "", j |-> j]
JsonSym(j) == [k |-> "json", c |-> "", j |-> j]

Str(c) == <<Ch(c)>>

RECURSIVE Digits(_)
Digits(n) == IF n < 10 THEN 1 ELSE 1 + Digits(n \div 10)

RECURSIVE IndexOf(_, _, _)
\* The first position >= i of s that holds the symbol x; 0 when there is none.
IndexOf(s, x, i) ==
    IF i > Len(s) THEN 0
    ELSE IF s[i] = x THEN i
    ELSE IndexOf(s, x, i + 1)

RECURSIVE Split(_, _)
\* String.prototype.split(sep) for a one-character separator.
Split(s, sep) ==
    LET p == IndexOf(s, sep, 1)
    IN  IF p = 0 THEN <<s>>
        ELSE <<SubSeq(s, 1, p - 1)>> \o Split(SubSeq(s, p + 1, Len(s)), sep)

RECURSIVE TrimStart(_)
TrimStart(s) ==
    IF s # <<>> /\ Head(s) = Ch(" ") THEN TrimStart(Tail(s)) ELSE s

RECURSIVE TrimEnd(_)
TrimEnd(s) ==
    IF s # <<>> /\ s[Len(s)] = Ch(" ")
    THEN TrimEnd(SubSeq(s, 1, Len(s) - 1))
    ELSE s

\* String.prototype.trim()
Trim(s) == TrimEnd(TrimStart(s))

LowerOf(c) ==
    CASE c = "A" -> "a"
      [] c = "B" -> "b"
      [] c = "X" -> "x"
      [] OTHER -> c

\* String.prototype.toLowerCase() and SQL LOWER()
ToLowerCase(s) ==
    [i \in 1..Len(s) |->
        IF s[i].k = "ch" THEN Ch(LowerOf(s[i].c)) ELSE s[i]]

\* encodeURIComponent: '=', ';', '+', '/', ' ' and '%' are escaped.
EncodeSym(x) ==
    CASE x.k = "b64" -> B64Esc(x.j)
      [] x.k = "ch" /\ x.c = "=" -> Ch("%3D")
      [] x.k = "ch" /\ x.c = ";" -> Ch("%3B")
      [] x.k = "ch" /\ x.c = " " -> Ch("%20")
      [] x.k = "ch" /\ x.c = "%" -> Ch("%25")
      [] OTHER -> x

encodeURIComponent(s) == [i \in 1..Len(s) |-> EncodeSym(s[i])]

DecodeSym(x) ==
    CASE x.k = "b64esc" -> B64(x.j)
      [] x.k = "ch" /\ x.c = "%3D" -> Ch("=")
      [] x.k = "ch" /\ x.c = "%3B" -> Ch(";")
      [] x.k = "ch" /\ x.c = "%20" -> Ch(" ")
      [] x.k = "ch" /\ x.c = "%25" -> Ch("%")
      [] OTHER -> x

\* decodeURIComponent throws URIError on a '%' that starts no escape.
DecodeThrows(s) == \E i \in 1..Len(s) : s[i] = Ch("%")

decodeURIComponent(s) == [i \in 1..Len(s) |-> DecodeSym(s[i])]

(***************************************************************************)
(* Session (lib/session.ts).                                               *)
(***************************************************************************)
SESSION_COOKIE_NAME == Str("client_session")

\* 24 * 60 * 60 * 1000: the lifetime of a session token, in milliseconds.
SessionTtlMs == 24 * 60 * 60 * 1000

\* The characters of JSON.stringify(sessionData) besides the values:
\* {"customerId":"","customerEntityId":"","customerName":"","email":"",
\*  "organizationId":"","expiresAt":}
JsonKeyChars == 101

\* JSON.stringify of a session object.
JSONstringify(s) == <<JsonSym(JObj(s))>>

\* The number of bytes of a JSON text.
ByteLen(text) ==
    LET s == text[1].j.s
    IN  JsonKeyChars + Len(s.customerId) + Len(s.customerEntityId)
        + Len(s.customerName) + Len(s.email) + Len(s.organizationId)
        + Digits(s.expiresAt)

\* Buffer.from(text).toString('base64'): the base64 characters of the text
\* and the '=' padding its length asks for.
Base64Encode(text) ==
    LET pad == (3 - (ByteLen(text) % 3)) % 3
    IN  <<B64(text[1].j)>> \o [i \in 1..pad |-> Ch("=")]

\* The text after the base64 characters of a token is padding.
IsPadding(s) == \A i \in 1..Len(s) : s[i] = Ch("=")

\* Buffer.from(token, 'base64').toString('utf-8'): never throws; what is not
\* the base64 of a JSON text decodes to bytes that are no JSON text.
Base64Decode(token) ==
    IF token # <<>> /\ token[1].k = "b64" /\ IsPadding(Tail(token))
    THEN <<JsonSym(token[1].j)>>
    ELSE Str("?")

\* JSON.parse throws SyntaxError on what is no JSON text.
JSONparseThrows(text) == ~(Len(text) = 1 /\ text[1].k = "json")
JSONparse(text) == text[1].j

\* createSessionToken with the lifetime taken as 24 * 60 * 60 milliseconds.
createSessionTokenSeconds(session, t) ==
    Base64Encode(JSONstringify(
        [session EXCEPT !.hasExpiresAt = TRUE,
                        !.expiresAt = t + 24 * 60 * 60]))

createSessionToken(session, t) ==
    LET sessionData ==
            [session EXCEPT !.hasExpiresAt = TRUE,
                            !.expiresAt = t + SessionTtlMs]
    IN  Base64Encode(JSONstringify(sessionData))

\* The result of a function that returns a session or null, or throws.
RNull == [kind |-> "null", s |-> NoSession]
RSession(s) == [kind |-> "session", s |-> s]
RThrow == [kind |-> "throw", s |-> NoSession]

\* JavaScript's a < b for a possibly undefined a: undefined < n is false.
JsLess(has, a, b) == has /\ a < b

parseSessionToken(token, t) ==
    LET decoded == Base64Decode(token)
    IN  IF JSONparseThrows(decoded) THEN RNull
        ELSE LET session == JSONparse(decoded)
             IN  IF session.kind = "null" THEN RNull   \* TypeError, caught
                 ELSE IF JsLess(session.s.hasExpiresAt, session.s.expiresAt, t)
                      THEN RNull
                      ELSE RSession(session.s)

\* One cookie of the header: [key, value] = cookie.trim().split('=')
CookieKey(cookie) == Split(Trim(cookie), Ch("="))[1]
CookieHasValue(cookie) == Len(Split(Trim(cookie), Ch("="))) >= 2
CookieValue(cookie) == Split(Trim(cookie), Ch("="))[2]

RECURSIVE LastNamed(_, _)
\* cookies[name] after the reduce: the last cookie of that name decides.
\* The result is [found, has, value]: has is FALSE for an undefined value.
LastNamed(cookies, name) ==
    IF cookies = <<>> THEN [found |-> FALSE, has |-> FALSE, value |-> <<>>]
    ELSE LET c == cookies[Len(cookies)]
         IN  IF CookieKey(c) = name
             THEN [found |-> TRUE, has |-> CookieHasValue(c),
                   value |-> IF CookieHasValue(c) THEN CookieValue(c) ELSE <<>>]
             ELSE LastNamed(SubSeq(cookies, 1, Len(cookies) - 1), name)

\* A request's Cookie header: [present, text].
NoHeader == [present |-> FALSE, text |-> <<>>]
Header(text) == [present |-> TRUE, text |-> text]

getSessionFromCookie(cookieHeader, t) ==
    IF ~cookieHeader.present \/ cookieHeader.text = <<>> THEN RNull
    ELSE LET token == LastNamed(Split(cookieHeader.text, Ch(";")),
                                SESSION_COOKIE_NAME)
         IN  IF ~token.found \/ ~token.has \/ token.value = <<>> THEN RNull
             ELSE IF DecodeThrows(token.value) THEN RThrow
             ELSE parseSessionToken(decodeURIComponent(token.value), t)

CookieAttributes ==
    <<Ch(";"), Ch(" "), Ch("Path"), Ch("="), Ch("/"),
      Ch(";"), Ch(" "), Ch("HttpOnly"),
      Ch(";"), Ch(" "), Ch("SameSite"), Ch("="), Ch("Strict"),
      Ch(";"), Ch(" "), Ch("Max-Age"), Ch("="), Ch("86400")>>

createSessionCookie(session, t) ==
    SESSION_COOKIE_NAME \o Str("=")
        \o encodeURIComponent(createSessionToken(session, t))
        \o CookieAttributes


(***************************************************************************)
(* Database (lib/db.ts).  Entity, attribute and share ids are numbers; a   *)
(* new row gets the next number (crypto.randomUUID() gives a fresh id).    *)
(* A SELECT without ORDER BY returns its rows in id order.                 *)
(***************************************************************************)
EAV_TABLES ==
    [calculations |-> "fc3eb1c9-224a-4da7-919b-fab762bdc6c6",
     projects |-> "65d05590-1c20-4d88-8e82-bfcbf9b9e23f"]

\* Table customers; no operation of the portal writes it.
Customers ==
    { [id |-> Str("c1"), entity_id |-> Str("ce1"), name |-> Str("A"),
       email |-> <<Ch("A"), Ch("@"), Ch("x")>>, contact_email |-> <<>>,
       hasEmail |-> TRUE, hasContactEmail |-> FALSE,
       organization_id |-> Str("o1")],
      [id |-> Str("c2"), entity_id |-> <<>>, name |-> <<Ch("A"), Ch("B")>>,
       email |-> <<>>, contact_email |-> <<Ch("b")>>,
       hasEmail |-> FALSE, hasContactEmail |-> TRUE,
       organization_id |-> Str("o2")] }

\* Table table_definitions: organisation o2 has a calculations table of its own.
TableDefinitions ==
    { [id |-> "o2-calculations", organization_id |-> Str("o2"),
       name |-> "calculations"] }

RECURSIVE SortedSeq(_)
\* The numbers of a finite set in increasing order.
SortedSeq(S) ==
    IF S = {} THEN <<>>
    ELSE LET m == CHOOSE x \in S : \A y \in S : x <= y
         IN  <<m>> \o SortedSeq(S \ {m})

MaxOf(S) == IF S = {} THEN 0 ELSE CHOOSE x \in S : \A y \in S : y <= x

NextAttrId(attrs) == MaxOf({a.id : a \in attrs}) + 1
NextEntityId(ents) == MaxOf({e.id : e \in ents}) + 1

RECURSIVE ContainsAt(_, _, _)
ContainsAt(s, sub, i) ==
    IF i + Len(sub) - 1 > Len(s) THEN FALSE
    ELSE IF SubSeq(s, i, i + Len(sub) - 1) = sub THEN TRUE
    ELSE ContainsAt(s, sub, i + 1)

\* String.prototype.includes(sub)
Includes(s, sub) == ContainsAt(s, sub, 1)

\* SQL: value LIKE '%' || name || '%' (LIKE ignores the case of ASCII letters).
Like(value, name) == Includes(ToLowerCase(value), ToLowerCase(name))

\* The value an entity's attribute reads as: the row read last decides
\* (data[name] = row.string_value || ...); <<>> when there is no row.
AttrValue(attrs, e, name) ==
    LET rows == {a \in attrs : a.entity_id = e /\ a.attribute_name = name}
    IN  IF rows = {} THEN <<>>
        ELSE (CHOOSE a \in rows : \A b \in rows : b.id <= a.id).string_value

\* SELECT e.id FROM entities e JOIN attributes a ON e.id = a.entity_id
\* WHERE e.table_id = ? AND a.attribute_name = 'id' AND a.string_value = ?
CalcEntities(ents, attrs, tableId, calculationId) ==
    {e.id : e \in {x \in ents : x.table_id = tableId
                     /\ \E a \in attrs : a.entity_id = x.id
                                          /\ a.attribute_name = "id"
                                          /\ a.string_value = calculationId}}

\* new Date(iso).getTime() of the dates the model's attributes hold.
ClockValues == {k * TickMs : k \in 0..MaxTicks}

\* new Date().toISOString() at time t
IsoDate(t) == <<Ch("iso"), Ch(ToString(t))>>

\* data.updatedAt ? new Date(data.updatedAt).getTime() : new Date().getTime()
DateParse(v, t) ==
    IF \E c \in ClockValues : v = IsoDate(c)
    THEN CHOOSE c \in ClockValues : v = IsoDate(c)
    ELSE t

RECURSIVE InsertDesc(_, _)
\* Insert an item into a sequence sorted by updatedAt descending, after the
\* items that compare equal (Array.prototype.sort is stable).
InsertDesc(sorted, item) ==
    IF sorted = <<>> THEN <<item>>
    ELSE IF Head(sorted).updatedAt >= item.updatedAt
         THEN <<Head(sorted)>> \o InsertDesc(Tail(sorted), item)
         ELSE <<item>> \o sorted

RECURSIVE SortByUpdatedAtDesc(_)
SortByUpdatedAtDesc(items) ==
    IF items = <<>> THEN <<>>
    ELSE InsertDesc(SortByUpdatedAtDesc(SubSeq(items, 1, Len(items) - 1)),
                    items[Len(items)])

\* Array.prototype.slice(from, to) for from, to >= 0
Slice(s, from, to) ==
    LET hi == IF to < Len(s) THEN to ELSE Len(s)
    IN  IF from >= hi THEN <<>> ELSE SubSeq(s, from + 1, hi)

\* The entities of a table that the client filter of getClientProjects and
\* getClientCalculations selects (SELECT DISTINCT e.id ...).
ClientEntityIds(ents, attrs, tableId, nameAttr, clientEntityId, clientName) ==
    {e.id : e \in {x \in ents : x.table_id = tableId
        /\ \E a \in attrs : a.entity_id = x.id
            /\ \/ a.attribute_name = "clientEntityId"
                  /\ a.string_value = clientEntityId
               \/ a.attribute_name = nameAttr
                  /\ Like(a.string_value, clientName)}}

\* hasMore with <=: true also when the page ends at the last entity.
HasMoreInclusive(offset, limit, total) == offset + limit <= total

\* hasMore: offset + limit < total
HasMore(offset, limit, total) == offset + limit < total

EmptyPage == [items |-> <<>>, total |-> 0, hasMore |-> FALSE, statements |-> 1]

Project(attrs, e, t) ==
    [id |-> AttrValue(attrs, e, "id"), entityId |-> e,
     clientEntityId |-> AttrValue(attrs, e, "clientEntityId"),
     projectId |-> <<>>,
     approvalStatus |-> <<>>,
     shareToken |-> <<>>,
     updatedAt |-> DateParse(AttrValue(attrs, e, "updatedAt"), t)]

getClientProjects(ents, attrs, clientEntityId, clientName, limit, offset, t) ==
    LET allEntityIds ==
            SortedSeq(ClientEntityIds(ents, attrs, EAV_TABLES.projects,
                                      "companyName", clientEntityId, clientName))
        total == Len(allEntityIds)
        paginatedIds == Slice(allEntityIds, offset, offset + limit)
        projects == [i \in 1..Len(paginatedIds) |->
                        Project(attrs, paginatedIds[i], t)]
    IN  IF total = 0 THEN EmptyPage
        ELSE [items |-> SortByUpdatedAtDesc(projects),
              total |-> total,
              hasMore |-> HasMore(offset, limit, total),
              statements |-> IF paginatedIds = <<>> THEN 1 ELSE 2]


\* The share rows of a calculation that a listing may show.
NewestShare(rows) ==
    CHOOSE r \in rows : \A q \in rows :
        q.created_at < r.created_at \/ (q.created_at = r.created_at /\ r.id <= q.id)

LastShare(rows) == CHOOSE r \in rows : \A q \in rows : q.id <= r.id

ShareRows(shs) == {shs[i] : i \in DOMAIN shs}

\* getClientCalculations: status 'active' or 'responded', newest first,
\* the first row of a calculation is kept.
ClientShareToken(shs, calcId) ==
    LET rows == {r \in ShareRows(shs) :
                    r.status \in {"active", "responded"}
                    /\ r.calculation_id = calcId}
    IN  IF calcId = <<>> \/ rows = {} THEN <<>> ELSE NewestShare(rows).token

\* getProjectCalculations: status 'active' and expires_at > now, the last
\* row of a calculation is kept.
ProjectShareToken(shs, calcId, t) ==
    LET rows == {r \in ShareRows(shs) :
                    r.status = "active" /\ r.expires_at > t \div 1000
                    /\ r.calculation_id = calcId}
    IN  IF calcId = <<>> \/ rows = {} THEN <<>> ELSE LastShare(rows).token

Calculation(attrs, e, token, t) ==
    [id |-> AttrValue(attrs, e, "id"), entityId |-> e,
     clientEntityId |-> AttrValue(attrs, e, "clientEntityId"),
     projectId |-> AttrValue(attrs, e, "projectId"),
     approvalStatus |->
        IF AttrValue(attrs, e, "approvalStatus") = <<>> THEN Str("DRAFT")
        ELSE AttrValue(attrs, e, "approvalStatus"),
     shareToken |-> token,
     updatedAt |-> DateParse(AttrValue(attrs, e, "updatedAt"), t)]

\* The statements a calculations listing executes: the entity query, the
\* batch attribute query of a non-empty page, the share query when a
\* calculation of the page has an id.
ListingStatements(attrs, paginatedIds) ==
    IF paginatedIds = <<>> THEN 1
    ELSE IF \E i \in 1..Len(paginatedIds) :
                AttrValue(attrs, paginatedIds[i], "id") # <<>>
         THEN 3 ELSE 2

getClientCalculations(ents, attrs, shs, clientEntityId, clientName, limit, offset, t) ==
    LET allEntityIds ==
            SortedSeq(ClientEntityIds(ents, attrs, EAV_TABLES.calculations,
                                      "calculationData.selectedClient.name",
                                      clientEntityId, clientName))
        total == Len(allEntityIds)
        paginatedIds == Slice(allEntityIds, offset, offset + limit)
        calculations ==
            [i \in 1..Len(paginatedIds) |->
                Calculation(attrs, paginatedIds[i],
                    ClientShareToken(shs, AttrValue(attrs, paginatedIds[i], "id")),
                    t)]
    IN  IF total = 0 THEN EmptyPage
        ELSE [items |-> SortByUpdatedAtDesc(calculations),
              total |-> total,
              hasMore |-> HasMore(offset, limit, total),
              statements |-> ListingStatements(attrs, paginatedIds)]

\* SELECT e.id FROM entities e JOIN attributes a ... WHERE e.table_id = ?
\* AND a.attribute_name = 'projectId' AND a.string_value = ?
\* (no DISTINCT: one row per matching attribute row).
ProjectRows(ents, attrs, projectId) ==
    LET rows == {a \in attrs :
                    /\ a.attribute_name = "projectId"
                    /\ a.string_value = projectId
                    /\ \E e \in ents : e.id = a.entity_id
                           /\ e.table_id = EAV_TABLES.calculations}
        ids == SortedSeq({a.id : a \in rows})
    IN  [i \in 1..Len(ids) |->
            (CHOOSE a \in rows : a.id = ids[i]).entity_id]

getProjectCalculations(ents, attrs, shs, projectId, limit, offset, t) ==
    LET allEntityIds == ProjectRows(ents, attrs, projectId)
        total == Len(allEntityIds)
        paginatedIds == Slice(allEntityIds, offset, offset + limit)
        calculations ==
            [i \in 1..Len(paginatedIds) |->
                Calculation(attrs, paginatedIds[i],
                    ProjectShareToken(shs,
                        AttrValue(attrs, paginatedIds[i], "id"), t),
                    t)]
    IN  IF total = 0 THEN EmptyPage
        ELSE [items |-> SortByUpdatedAtDesc(calculations),
              total |-> total,
              hasMore |-> HasMore(offset, limit, total),
              statements |-> ListingStatements(attrs, paginatedIds)]


(***************************************************************************)
(* The login route (pages/api/auth/login.ts).                              *)
(***************************************************************************)
\* SELECT ... FROM customers WHERE LOWER(email) = LOWER(?)
\*                              OR LOWER(contact_email) = LOWER(?)
MatchingCustomers(email) ==
    {c \in Customers :
        \/ c.hasEmail /\ ToLowerCase(c.email) = ToLowerCase(email)
        \/ c.hasContactEmail /\ ToLowerCase(c.contact_email) = ToLowerCase(email)}

\* The email lower-cased but not trimmed.
NormalizeEmailNoTrim(text) == ToLowerCase(text)

\* email.trim().toLowerCase()
NormalizeEmail(text) == ToLowerCase(Trim(text))

\* The session data the login route builds for a customer.
LoginSession(customer, email) ==
    [NoSession EXCEPT
        !.customerId = customer.id,
        !.customerEntityId =
            IF customer.entity_id # <<>> THEN customer.entity_id ELSE customer.id,
        !.customerName = customer.name,
        !.email = NormalizeEmail(email),
        !.organizationId = customer.organization_id]

\* The email property of a request body: missing, no string, or a string.
EmailInputs ==
    { [kind |-> "missing", text |-> <<>>],
      [kind |-> "number", text |-> <<>>],
      [kind |-> "string", text |-> <<>>],
      [kind |-> "string", text |-> <<Ch(" ")>>],
      [kind |-> "string", text |-> <<Ch("a"), Ch("@"), Ch("x")>>],
      [kind |-> "string", text |-> <<Ch(" "), Ch("A"), Ch("@"), Ch("X"), Ch(" ")>>],
      [kind |-> "string", text |-> <<Ch("B")>>],
      [kind |-> "string", text |-> <<Ch("z"), Ch("@"), Ch("x")>>] }

LoginResponse(configured, bodyOk, email, dbThrows, customer, t) ==
    LET base == [op |-> "login", at |-> t, configured |-> configured,
                 bodyOk |-> bodyOk, email |-> email, dbThrows |-> dbThrows,
                 found |-> FALSE, status |-> 0, setCookie |-> <<>>,
                 customerId |-> <<>>]
    IN  IF ~configured THEN [base EXCEPT !.status = 503]
        ELSE IF ~bodyOk THEN [base EXCEPT !.status = 500]
        ELSE IF email.kind # "string" \/ email.text = <<>>
             THEN [base EXCEPT !.status = 400]
        ELSE IF dbThrows THEN [base EXCEPT !.status = 500]
        ELSE IF MatchingCustomers(NormalizeEmail(email.text)) = {}
             THEN [base EXCEPT !.status = 401]
        ELSE [base EXCEPT
                !.status = 200, !.found = TRUE,
                !.customerId = customer.id,
                !.setCookie =
                    createSessionCookie(LoginSession(customer, email.text), t)]

\* POST /api/auth/login.  isDatabaseConfigured() reads DB_URL, request.json()
\* may throw, and so may the SELECT of findCustomerByEmail; LIMIT 1 returns
\* some matching customer.
Login ==
    /\ last.op = "idle"
    /\ \E configured \in BOOLEAN, bodyOk \in BOOLEAN, dbThrows \in BOOLEAN,
       email \in EmailInputs, customer \in Customers :
        /\ \/ customer \in MatchingCustomers(NormalizeEmail(email.text))
           \/ /\ MatchingCustomers(NormalizeEmail(email.text)) = {}
              /\ customer = CHOOSE c \in Customers : TRUE
        /\ last' = LoginResponse(configured, bodyOk, email, dbThrows, customer, now)
        /\ UNCHANGED <<now, shares, attributes, entities, activities,
                       webhooks, translationCache,
                   logoBase64Cache, inflight>>

\* No request is being handled.
Idle == [op |-> "idle"]

\* The handler returns its response; the server waits for the next request.
Return ==
    /\ last.op # "idle"
    /\ last' = Idle
    /\ UNCHANGED <<now, shares, attributes, entities, activities, webhooks,
                   translationCache,
                   logoBase64Cache, inflight>>

\* The clock advances.
Tick ==
    /\ last.op = "idle"
    /\ now < MaxTicks * TickMs
    /\ now' = now + TickMs
    /\ UNCHANGED <<last, shares, attributes, entities, activities, webhooks,
                   translationCache,
                   logoBase64Cache, inflight>>


(***************************************************************************)
(* Requests.  A Cookie header holds cookies the login route has handed     *)
(* out at some earlier time, cookies a client made up, and other cookies.  *)
(***************************************************************************)
\* The name=value pair of a Set-Cookie value, which the browser sends back.
PairOf(setCookie) == Split(setCookie, Ch(";"))[1]

CustomerEmail(c) == IF c.hasEmail THEN c.email ELSE c.contact_email

IssuedPairs(t) ==
    {PairOf(createSessionCookie(LoginSession(c, CustomerEmail(c)), t0)) :
        c \in Customers, t0 \in {x \in ClockValues : x <= t}}

\* A session object without expiresAt, as a client can encode it.
ForgedSession ==
    [NoSession EXCEPT !.customerId = Str("c2"), !.customerName = Str("A"),
                      !.organizationId = Str("o1")]

ForgedPairs ==
    { SESSION_COOKIE_NAME \o Str("=") \o Str("garbage"),
      SESSION_COOKIE_NAME \o Str("=")
          \o encodeURIComponent(Base64Encode(JSONstringify(ForgedSession))),
      SESSION_COOKIE_NAME \o Str("=") \o <<B64(JNull)>>,
      SESSION_COOKIE_NAME \o Str("=") \o Str("%"),
      SESSION_COOKIE_NAME \o Str("="),
      SESSION_COOKIE_NAME }

OtherPair == Str("theme") \o Str("=") \o Str("dark")
OtherPairWithEquals == Str("k") \o Str("=") \o Str("a") \o Str("=") \o Str("b")

RECURSIVE JoinCookies(_)
\* The cookies of a header, joined by "; "; an empty cookie is left out.
JoinCookies(cs) ==
    IF cs = <<>> THEN <<>>
    ELSE LET rest == JoinCookies(Tail(cs))
         IN  IF Head(cs) = <<>> THEN rest
             ELSE IF rest = <<>> THEN Head(cs)
             ELSE Head(cs) \o <<Ch(";"), Ch(" ")>> \o rest

RequestHeaders(t) ==
    {NoHeader, Header(<<>>)}
    \cup {Header(JoinCookies(<<others[1], c, others[2]>>)) :
            others \in {<<<<>>, <<>>>>, <<OtherPair, OtherPairWithEquals>>},
            c \in IssuedPairs(t) \cup ForgedPairs \cup {OtherPair}}

\* What a route answered: the response, the database statements it executed
\* and the requests it sent upstream.
RouteResponse(op, header, session, status, statements, upstream, t) ==
    [op |-> op, at |-> t, id |-> <<>>, header |-> header, session |-> session,
     status |-> status, outcome |-> "", statements |-> statements,
     upstream |-> upstream, items |-> <<>>]

\* redirect(`/dashboard?...=outcome`, 303)
Redirect(op, header, session, outcome, statements, upstream, t) ==
    [RouteResponse(op, header, session, 303, statements, upstream, t)
        EXCEPT !.outcome = outcome]

\* An exception thrown outside a handler's try block: the framework answers 500.
Unhandled(op, header, session, t) ==
    RouteResponse(op, header, session, 500, 0, 0, t)

\* A route that reads the database before it looks at the session.
UnauthorizedAfterQuery(op, header, session, t) ==
    RouteResponse(op, header, session, 401, 1, 0, t)

\* if (!session) return new Response(..., { status: 401 })
Unauthorized(op, header, session, t) ==
    RouteResponse(op, header, session, 401, 0, 0, t)

\* parseInt(url.searchParams.get(name) || dflt) for a missing parameter
\* (-1 here) or a non-negative number.
QueryNumber(param, dflt) == IF param < 0 THEN dflt ELSE param

(***************************************************************************)
(* GET /api/projects                                                       *)
(***************************************************************************)
ProjectsRoute ==
    /\ last.op = "idle"
    /\ \E header \in RequestHeaders(now), limit \in {-1, 1}, offset \in {-1, 1} :
        LET session == getSessionFromCookie(header, now)
            result == getClientProjects(entities, attributes,
                          session.s.customerId, session.s.customerName,
                          QueryNumber(limit, 20), QueryNumber(offset, 0), now)
        IN  /\ last' =
                   IF session.kind = "throw"
                   THEN Unhandled("projects", header, session, now)
                   ELSE IF session.kind = "null"
                   THEN Unauthorized("projects", header, session, now)
                   ELSE RouteResponse("projects", header, session, 200,
                                      result.statements, 0, now)
            /\ UNCHANGED <<now, shares, attributes, entities, activities,
                           webhooks, translationCache,
                   logoBase64Cache, inflight>>

(***************************************************************************)
(* GET /api/calculations                                                   *)
(***************************************************************************)
CalculationsRoute ==
    /\ last.op = "idle"
    /\ \E header \in RequestHeaders(now), limit \in {-1, 1},
       projectId \in {<<>>, Str("p1")} :
        LET session == getSessionFromCookie(header, now)
            result ==
                IF projectId # <<>>
                THEN getProjectCalculations(entities, attributes, shares,
                         projectId, QueryNumber(limit, 20), 0, now)
                ELSE getClientCalculations(entities, attributes, shares,
                         session.s.customerId, session.s.customerName,
                         QueryNumber(limit, 20), 0, now)
        IN  /\ last' =
                   IF session.kind = "throw"
                   THEN Unhandled("calculations", header, session, now)
                   ELSE IF session.kind = "null"
                   THEN Unauthorized("calculations", header, session, now)
                   ELSE [RouteResponse("calculations", header, session, 200,
                                       result.statements, 0, now)
                            EXCEPT !.id = projectId, !.items = result.items]
            /\ UNCHANGED <<now, shares, attributes, entities, activities,
                           webhooks, translationCache,
                   logoBase64Cache, inflight>>

(***************************************************************************)
(* GET /api/product-templates: the request is forwarded to the main        *)
(* application.  upstream is what the main application does: it answers    *)
(* ok, answers an error status, or the fetch throws.                       *)
(***************************************************************************)
UpstreamOutcomes == {"ok", "error", "throw"}

ForwardStatus(upstream, okStatus, errorStatus) ==
    CASE upstream = "ok" -> okStatus
      [] upstream = "error" -> errorStatus
      [] OTHER -> 500

ProductTemplatesRoute ==
    /\ last.op = "idle"
    /\ \E header \in RequestHeaders(now), upstream \in UpstreamOutcomes :
        LET session == getSessionFromCookie(header, now)
        IN  /\ last' =
                   IF session.kind = "throw"
                   THEN Unhandled("product-templates", header, session, now)
                   ELSE IF session.kind = "null"
                   THEN Unauthorized("product-templates", header, session, now)
                   ELSE RouteResponse("product-templates", header, session,
                                      ForwardStatus(upstream, 200, 502), 0, 1, now)
            /\ UNCHANGED <<now, shares, attributes, entities, activities,
                           webhooks, translationCache,
                   logoBase64Cache, inflight>>

\* The variant that looks the client's entity id up (getClientEntityId): one
\* SELECT on customers when the session has no customerEntityId.
ProductTemplatesEntityRoute ==
    /\ last.op = "idle"
    /\ \E header \in RequestHeaders(now), upstream \in UpstreamOutcomes :
        LET session == getSessionFromCookie(header, now)
            lookups == IF session.s.customerEntityId # <<>> THEN 0 ELSE 1
        IN  /\ last' =
                   IF session.kind = "throw"
                   THEN Unhandled("product-templates-entity", header, session, now)
                   ELSE IF session.kind = "null"
                   THEN Unauthorized("product-templates-entity", header,
                                     session, now)
                   ELSE RouteResponse("product-templates-entity", header, session,
                                      ForwardStatus(upstream, 200, 502),
                                      lookups, 1, now)
            /\ UNCHANGED <<now, shares, attributes, entities, activities,
                           webhooks, translationCache,
                   logoBase64Cache, inflight>>


(***************************************************************************)
(* POST /api/order-request                                                 *)
(***************************************************************************)
PROJECTS_TABLE_ID == "65d05590-1c20-4d88-8e82-bfcbf9b9e23f"

\* The project entities of a client that have an id attribute, newest first
\* (ORDER BY e.created_at DESC LIMIT 1).
ExistingProjects(ents, attrs, clientEntityId) ==
    {e \in ents :
        /\ e.table_id = PROJECTS_TABLE_ID
        /\ \E a1 \in attrs : a1.entity_id = e.id
                /\ a1.attribute_name = "clientEntityId"
                /\ a1.string_value = clientEntityId
        /\ \E a2 \in attrs : a2.entity_id = e.id /\ a2.attribute_name = "id"}

NewestEntity(es) ==
    CHOOSE e \in es : \A x \in es :
        x.created_at < e.created_at \/ (x.created_at = e.created_at /\ e.id <= x.id)

\* The attribute rows getOrCreateProject inserts for a new project.
ProjectAttributes(entityId, projectId, projectName, clientName, clientEntityId, firstId, t) ==
    LET values ==
            << <<"id", projectId>>, <<"name", projectName>>,
               <<"projectNumber", Str("PP")>>, <<"companyName", clientName>>,
               <<"clientEntityId", clientEntityId>>, <<"status", Str("active")>>,
               <<"source", Str("client-portal")>>, <<"createdAt", IsoDate(t)>>,
               <<"updatedAt", IsoDate(t)>> >>
    IN  {[id |-> firstId + i - 1, entity_id |-> entityId,
          attribute_name |-> values[i][1], string_value |-> values[i][2]] :
            i \in 1..Len(values)}

\* getOrCreateProject: the project found, or the tables with a new project.
getOrCreateProject(ents, attrs, clientEntityId, clientName, projectName, t) ==
    LET existing == ExistingProjects(ents, attrs, clientEntityId)
        entityId == NextEntityId(ents)
        projectId == <<Ch("project"), Ch(ToString(entityId))>>
    IN  IF existing # {}
        THEN [id |-> AttrValue(attrs, NewestEntity(existing).id, "id"),
              entityId |-> NewestEntity(existing).id,
              entities |-> ents, attributes |-> attrs, statements |-> 1]
        ELSE [id |-> projectId, entityId |-> entityId,
              entities |-> ents \cup
                  {[id |-> entityId, table_id |-> PROJECTS_TABLE_ID,
                    created_at |-> t \div 1000]},
              attributes |-> attrs \cup
                  ProjectAttributes(entityId, projectId, projectName, clientName,
                                    clientEntityId, NextAttrId(attrs), t),
              statements |-> 11]

OrderRequestRoute ==
    /\ last.op = "idle"
    /\ \E header \in RequestHeaders(now), bodyOk \in BOOLEAN, hasItems \in BOOLEAN,
       upstream \in UpstreamOutcomes :
        LET session == getSessionFromCookie(header, now)
            project == getOrCreateProject(entities, attributes,
                           session.s.customerId, session.s.customerName,
                           Str("Dopyt"), now)
            authorized == session.kind = "session"
            creates == authorized /\ bodyOk /\ hasItems
        IN  /\ last' =
                   IF session.kind = "throw"
                   THEN Unhandled("order-request", header, session, now)
                   ELSE IF session.kind = "null"
                   THEN Unauthorized("order-request", header, session, now)
                   ELSE IF ~bodyOk
                   THEN RouteResponse("order-request", header, session, 500,
                                      0, 0, now)
                   ELSE IF ~hasItems
                   THEN RouteResponse("order-request", header, session, 400,
                                      0, 0, now)
                   ELSE RouteResponse("order-request", header, session,
                                      ForwardStatus(upstream, 201, 500),
                                      project.statements, 1, now)
            /\ entities' = IF creates THEN project.entities ELSE entities
            /\ attributes' = IF creates THEN project.attributes ELSE attributes
            /\ UNCHANGED <<now, shares, activities, webhooks, translationCache,
                   logoBase64Cache, inflight>>

(***************************************************************************)
(* POST /api/quote/[id]/respond-waiting                                    *)
(***************************************************************************)
\* SELECT id, token FROM calculation_shares WHERE calculation_id = ?
\* AND status = 'active' ORDER BY created_at DESC LIMIT 1
ActiveShares(shs, calculationId) ==
    {r \in ShareRows(shs) :
        r.calculation_id = calculationId /\ r.status = "active"}

Activity(calculationId, action, comment, organizationId, t) ==
    [calculation_id |-> calculationId, action |-> action, comment |-> comment,
     organization_id |-> organizationId, created_at |-> t \div 1000]

Webhook(calculationId, token, action, comment) ==
    [calculationId |-> calculationId, token |-> token, action |-> action,
     comment |-> comment]

PathIds == {<<>>, Str("k1"), Str("k2")}
Comments == {<<>>, <<Ch(" ")>>, <<Ch(" "), Ch("q")>>}

RespondWaitingRoute ==
    /\ last.op = "idle"
    /\ \E id \in PathIds, header \in RequestHeaders(now), comment \in Comments :
        LET session == getSessionFromCookie(header, now)
            found == ActiveShares(shares, id)
            share == NewestShare(found)
            writes == /\ id # <<>> /\ session.kind = "session"
                      /\ Trim(comment) # <<>> /\ found # {}
        IN  /\ Len(activities) < MaxLog
            /\ last' =
                   [ (IF id = <<>>
                      THEN RouteResponse("respond-waiting", header, RNull, 400,
                                         0, 0, now)
                      ELSE IF session.kind = "throw"
                      THEN Unhandled("respond-waiting", header, session, now)
                      ELSE IF session.kind = "null"
                      THEN Unauthorized("respond-waiting", header, session, now)
                      ELSE IF Trim(comment) = <<>>
                      THEN Redirect("respond-waiting", header, session,
                                    "empty_response", 0, 0, now)
                      ELSE IF found = {}
                      THEN Redirect("respond-waiting", header, session,
                                    "no_share", 1, 0, now)
                      ELSE Redirect("respond-waiting", header, session,
                                    "response_sent", 4, 1, now))
                     EXCEPT !.id = id ]
            /\ shares' =
                   IF writes
                   THEN [shares EXCEPT ![share.id] =
                            [@ EXCEPT !.client_response = "question_received",
                                      !.client_comment = Trim(comment),
                                      !.responded_at = now \div 1000]]
                   ELSE shares
            /\ activities' =
                   IF writes
                   THEN Append(activities,
                            Activity(id, "question_received", Trim(comment),
                                     share.organization_id, now))
                   ELSE activities
            /\ webhooks' =
                   IF writes
                   THEN Append(webhooks,
                            Webhook(id, share.token, "question_received",
                                    Trim(comment)))
                   ELSE webhooks
            /\ UNCHANGED <<now, attributes, entities, translationCache,
                   logoBase64Cache, inflight>>


(***************************************************************************)
(* The quote response (updateQuoteResponse of lib/db.ts).                  *)
(***************************************************************************)
\* The share rows of a calculation and token that are still 'active'.
SharesByTokenActive(shs, calculationId, token) ==
    {r \in ShareRows(shs) : r.calculation_id = calculationId
                            /\ r.token = token /\ r.status = "active"}

\* The share rows of a calculation, whatever the token.
SharesByCalculation(shs, calculationId, token) ==
    {r \in ShareRows(shs) : r.calculation_id = calculationId}

\* SELECT ... FROM calculation_shares WHERE calculation_id = ? AND token = ?
SharesByToken(shs, calculationId, token) ==
    {r \in ShareRows(shs) :
        r.calculation_id = calculationId /\ r.token = token}

\* LIMIT 1
FirstShare(rows) == CHOOSE r \in rows : \A q \in rows : r.id <= q.id

\* The expiry check with expires_at taken for milliseconds.
ShareExpiredMillis(share, t) ==
    share.expires_at # 0 /\ share.expires_at * 1000 < t \div 1000

\* if (expiresAt && expiresAt < Math.floor(Date.now() / 1000))
ShareExpired(share, t) ==
    share.expires_at # 0 /\ share.expires_at < t \div 1000

\* approvalStatusMap[action] || ''
approvalStatusMap(action) ==
    CASE action = "approved" -> Str("CLIENT_APPROVED")
      [] action = "rejected" -> Str("CLIENT_REJECTED")
      [] action = "requested_changes" -> Str("CLIENT_REQUESTED_CHANGES")
      [] OTHER -> <<>>

\* action === 'approved' ? 'responded' : 'active'
ShareStatusFor(action) == IF action = "approved" THEN "responded" ELSE "active"

\* UPDATE calculation_shares SET status = ?, client_response = ?,
\* client_comment = ?, responded_at = ? WHERE calculation_id = ? AND token = ?
UpdateShares(shs, calculationId, token, action, comment, t) ==
    [i \in DOMAIN shs |->
        IF shs[i].calculation_id = calculationId /\ shs[i].token = token
        THEN [shs[i] EXCEPT !.status = ShareStatusFor(action),
                            !.client_response = action,
                            !.client_comment = comment,
                            !.responded_at = t \div 1000]
        ELSE shs[i]]

\* The approvalStatus attribute of an entity: the existing rows are updated,
\* or a row is inserted when there is none.
SetApprovalStatus(attrs, entityId, value) ==
    IF \E a \in attrs : a.entity_id = entityId
                        /\ a.attribute_name = "approvalStatus"
    THEN {IF a.entity_id = entityId /\ a.attribute_name = "approvalStatus"
          THEN [a EXCEPT !.string_value = value] ELSE a : a \in attrs}
    ELSE attrs \cup {[id |-> NextAttrId(attrs), entity_id |-> entityId,
                      attribute_name |-> "approvalStatus",
                      string_value |-> value]}

\* The action of the activity log entry.
ActivityAction(action) ==
    CASE action = "approved" -> "client_approved"
      [] action = "rejected" -> "client_rejected"
      [] action = "requested_changes" -> "client_requested_changes"
      [] OTHER -> "question_received"

\* What updateQuoteResponse returns and the tables as it leaves them.
QuoteResult(ret, shs, attrs, acts, whs) ==
    [ret |-> ret, shares |-> shs, attributes |-> attrs, activities |-> acts,
     webhooks |-> whs]

updateQuoteResponse(shs, ents, attrs, acts, whs, calculationId, token, action, comment, t) ==
    LET shareResult == SharesByToken(shs, calculationId, token)
        newApprovalStatus == approvalStatusMap(action)
        entityResult == CalcEntities(ents, attrs, EAV_TABLES.calculations,
                                     calculationId)
        entityId == CHOOSE e \in entityResult : \A x \in entityResult : e <= x
    IN  IF shareResult = {} THEN QuoteResult(FALSE, shs, attrs, acts, whs)
        ELSE IF ShareExpired(FirstShare(shareResult), t)
        THEN QuoteResult(FALSE, shs, attrs, acts, whs)
        ELSE QuoteResult(TRUE,
                UpdateShares(shs, calculationId, token, action, comment, t),
                IF newApprovalStatus # <<>> /\ entityResult # {}
                THEN SetApprovalStatus(attrs, entityId, newApprovalStatus)
                ELSE attrs,
                Append(acts,
                    Activity(calculationId, ActivityAction(action), comment,
                             FirstShare(shareResult).organization_id, t)),
                Append(whs, Webhook(calculationId, token, action, comment)))

\* The earlier updateQuoteResponse (src/lib/db.ts): only an 'active' share
\* is accepted, the comment is not stored, no activity and no webhook.
\* INSERT OR REPLACE replaces the approvalStatus row of the entity.
updateQuoteResponseDb(shs, ents, attrs, acts, whs, calculationId, token, action, t) ==
    LET shareResult == {r \in SharesByToken(shs, calculationId, token) :
                           r.status = "active"}
        entityResult == CalcEntities(ents, attrs, EAV_TABLES.calculations,
                                     calculationId)
        entityId == CHOOSE e \in entityResult : \A x \in entityResult : e <= x
        kept == {a \in attrs : ~(a.entity_id = entityId
                                 /\ a.attribute_name = "approvalStatus")}
    IN  IF shareResult = {} THEN QuoteResult(FALSE, shs, attrs, acts, whs)
        ELSE IF ShareExpired(FirstShare(shareResult), t)
        THEN QuoteResult(FALSE, shs, attrs, acts, whs)
        ELSE QuoteResult(TRUE,
                [i \in DOMAIN shs |->
                    IF shs[i].calculation_id = calculationId
                       /\ shs[i].token = token
                    THEN [shs[i] EXCEPT !.client_response = action,
                                        !.responded_at = t \div 1000,
                                        !.status = ShareStatusFor(action)]
                    ELSE shs[i]],
                IF entityResult # {}
                THEN kept \cup {[id |-> IF kept = attrs THEN NextAttrId(attrs)
                                         ELSE MaxOf({a.id : a \in attrs \ kept}),
                                 entity_id |-> entityId,
                                 attribute_name |-> "approvalStatus",
                                 string_value |-> approvalStatusMap(action)]}
                ELSE attrs,
                acts, whs)

\* The (calculation id, token) pairs of the requests: the pairs of the
\* shares, a token of another calculation, an unknown calculation, an
\* unknown token.
QuoteTargets ==
    { <<Str("k1"), Str("tok1")>>, <<Str("k2"), Str("tok2")>>,
      <<Str("k1"), Str("tok3")>>, <<Str("k2"), Str("tok4")>>,
      <<Str("k3"), Str("tok5")>>, <<Str("k1"), Str("tok2")>>,
      <<Str("k9"), Str("tok1")>>, <<Str("k1"), Str("bad")>> }

QuoteActions == {"approved", "rejected", "requested_changes", "question_received"}

QuoteCall(op, calculationId, token, action, comment, ret, status, t) ==
    [op |-> op, at |-> t, calculationId |-> calculationId, token |-> token,
     action |-> action, comment |-> comment, ret |-> ret, status |-> status]

\* A call of updateQuoteResponse (comment || null: an empty comment is NULL).
UpdateQuoteResponse ==
    /\ last.op = "idle"
    /\ Len(activities) < MaxLog
    /\ \E target \in QuoteTargets, action \in QuoteActions,
          comment \in {<<>>, Str("c")} :
        LET r == updateQuoteResponse(shares, entities, attributes, activities,
                     webhooks, target[1], target[2], action, comment, now)
        IN  /\ last' = QuoteCall("updateQuoteResponse", target[1], target[2],
                                 action, comment, r.ret, 0, now)
            /\ shares' = r.shares
            /\ attributes' = r.attributes
            /\ activities' = r.activities
            /\ webhooks' = r.webhooks
            /\ UNCHANGED <<now, entities, translationCache,
                   logoBase64Cache, inflight>>

\* A call of the earlier updateQuoteResponse.
UpdateQuoteResponseDb ==
    /\ last.op = "idle"
    /\ \E target \in {<<Str("k1"), Str("tok1")>>, <<Str("k1"), Str("tok3")>>,
                      <<Str("k2"), Str("tok4")>>, <<Str("k9"), Str("tok1")>>},
          action \in QuoteActions \ {"question_received"} :
        LET r == updateQuoteResponseDb(shares, entities, attributes, activities,
                     webhooks, target[1], target[2], action, now)
        IN  /\ last' = QuoteCall("updateQuoteResponseDb", target[1], target[2],
                                 action, <<>>, r.ret, 0, now)
            /\ shares' = r.shares
            /\ attributes' = r.attributes
            /\ UNCHANGED <<now, entities, activities, webhooks, translationCache,
                   logoBase64Cache, inflight>>

\* POST /api/quote/[id]/[token]/respond: the form's action is checked, then
\* updateQuoteResponse(id, token, action, comment || undefined).
QuoteRespondRoute ==
    /\ last.op = "idle"
    /\ Len(activities) < MaxLog
    /\ \E target \in QuoteTargets \cup {<<Str("k1"), <<>>>>},
          action \in QuoteActions \cup {""}, comment \in {<<>>, Str("c")} :
        LET valid == action \in {"approved", "rejected", "requested_changes"}
            called == target[1] # <<>> /\ target[2] # <<>> /\ valid
            r == updateQuoteResponse(shares, entities, attributes, activities,
                     webhooks, target[1], target[2], action, comment, now)
        IN  /\ last' = QuoteCall("quote-respond", target[1], target[2], action,
                           comment, called /\ r.ret,
                           IF ~called THEN 400
                           ELSE IF ~r.ret THEN 500 ELSE 303, now)
            /\ shares' = IF called THEN r.shares ELSE shares
            /\ attributes' = IF called THEN r.attributes ELSE attributes
            /\ activities' = IF called THEN r.activities ELSE activities
            /\ webhooks' = IF called THEN r.webhooks ELSE webhooks
            /\ UNCHANGED <<now, entities, translationCache,
                   logoBase64Cache, inflight>>

(***************************************************************************)
(* Translation (translateBatch of lib/translate.ts).  The cache is a set   *)
(* of [key, value] rows with one row per key.                              *)
(***************************************************************************)
\* langMap[targetLang] || targetLang
GoogleLang(targetLang) ==
    IF targetLang = Str("de-AT") THEN Str("de") ELSE targetLang

\* `${text}:${sourceLang}:${googleTargetLang}`
CacheKey(text, sourceLang, googleTargetLang) ==
    text \o Str(":") \o sourceLang \o Str(":") \o googleTargetLang

CacheHas(cache, key) == \E row \in cache : row.key = key
CacheGet(cache, key) == (CHOOSE row \in cache : row.key = key).value

\* A cache of one entry: setting a key drops every other key.
CacheSetSingle(cache, key, value) == {[key |-> key, value |-> value]}

\* translationCache.set(cacheKey, translatedText)
CacheSet(cache, key, value) ==
    {row \in cache : row.key # key} \cup {[key |-> key, value |-> value]}

\* What the translation service answers for a text.
Translate(text, googleTargetLang) == <<Ch("tr")>> \o googleTargetLang \o text

\* The answers of the translation service to a request of k texts: no API
\* key, a thrown fetch, a non-OK response, or n <= k translations of which
\* some have a blank translatedText or one is null.
ApiResponses(k) ==
    {[kind |-> x, n |-> 0, blank |-> {}, nullAt |-> 0] :
        x \in {"nokey", "throw", "error"}}
    \cup UNION {{[kind |-> "ok", n |-> n, blank |-> b, nullAt |-> 0] :
                    b \in SUBSET (1..n)} : n \in 0..k}
    \cup UNION {{[kind |-> "ok", n |-> n, blank |-> {}, nullAt |-> i] :
                    i \in 1..n} : n \in 1..k}

\* The index written with the position in the request, not in the input.
ResultIndexDirect(uncachedIndices, i) == i

\* const originalIndex = uncachedIndices[i]
ResultIndex(uncachedIndices, i) == uncachedIndices[i]

RECURSIVE StoreTranslations(_, _, _, _, _, _, _)
\* translations.forEach: the translations i..upto are cached and stored.
StoreTranslations(acc, i, upto, api, uncachedIndices, texts, langs) ==
    IF i > upto THEN acc
    ELSE LET originalText == texts[uncachedIndices[i]]
             translatedText == IF i \in api.blank THEN originalText
                               ELSE Translate(originalText, langs[2])
         IN  StoreTranslations(
                 [results |-> [acc.results EXCEPT
                                  ![ResultIndex(uncachedIndices, i)] =
                                      translatedText],
                  cache |-> CacheSet(acc.cache,
                                CacheKey(originalText, langs[1], langs[2]),
                                translatedText)],
                 i + 1, upto, api, uncachedIndices, texts, langs)

TranslateResult(ret, cache, requests) ==
    [ret |-> ret, cache |-> cache, requests |-> requests, threw |-> FALSE]

translateBatch(cache, texts, targetLang, sourceLang, api) ==
    LET googleTargetLang == GoogleLang(targetLang)
        IsCached(i) ==
            CacheHas(cache, CacheKey(texts[i], sourceLang, googleTargetLang))
        uncachedIndices ==
            SelectSeq([i \in 1..Len(texts) |-> i],
                      LAMBDA i : texts[i] # <<>> /\ ~IsCached(i))
        results ==
            [i \in 1..Len(texts) |->
                IF texts[i] # <<>> /\ IsCached(i)
                THEN CacheGet(cache,
                         CacheKey(texts[i], sourceLang, googleTargetLang))
                ELSE texts[i]]
        upto == IF api.nullAt = 0 THEN api.n ELSE api.nullAt - 1
        stored == StoreTranslations([results |-> results, cache |-> cache],
                      1, upto, api, uncachedIndices, texts,
                      <<sourceLang, googleTargetLang>>)
    IN  IF targetLang = sourceLang \/ targetLang = Str("sk")
        THEN TranslateResult(texts, cache, 0)
        ELSE IF uncachedIndices = <<>>
        THEN TranslateResult(results, cache, 0)
        ELSE IF api.kind = "nokey" THEN TranslateResult(texts, cache, 0)
        ELSE IF api.kind \in {"throw", "error"}
        THEN TranslateResult(texts, cache, 1)
        ELSE IF api.nullAt # 0 THEN TranslateResult(texts, stored.cache, 1)
        ELSE TranslateResult(stored.results, stored.cache, 1)

\* The number of texts of a request that are not in the cache.
Uncached(cache, texts, targetLang, sourceLang) ==
    Cardinality({i \in 1..Len(texts) :
        /\ texts[i] # <<>>
        /\ ~CacheHas(cache,
               CacheKey(texts[i], sourceLang, GoogleLang(targetLang)))})

\* The texts of the requests.
Texts == {<<>>, Str("a"), Str("b")}

RECURSIVE SeqsUpTo(_, _)
\* The sequences over S of length at most n.
SeqsUpTo(S, n) ==
    IF n = 0 THEN {<<>>}
    ELSE LET shorter == SeqsUpTo(S, n - 1)
         IN  shorter \cup {Append(q, x) : q \in shorter, x \in S}

\* The (targetLang, sourceLang) pairs of the requests.
LangPairs ==
    { <<Str("sk"), Str("sk")>>, <<Str("de-AT"), Str("sk")>>,
      <<Str("de"), Str("sk")>>, <<Str("en"), Str("en")>> }

\* A call of translateBatch.
TranslateBatch ==
    /\ last.op = "idle"
    /\ \E texts \in SeqsUpTo(Texts, MaxTexts), langs \in LangPairs :
       \E api \in ApiResponses(Uncached(translationCache, texts,
                                        langs[1], langs[2])) :
        LET r == translateBatch(translationCache, texts, langs[1], langs[2],
                                api)
        IN  /\ last' = [op |-> "translateBatch", texts |-> texts,
                        targetLang |-> langs[1], sourceLang |-> langs[2],
                        api |-> api, ret |-> r.ret, threw |-> r.threw,
                        requests |-> r.requests, cache |-> translationCache]
            /\ translationCache' = r.cache
            /\ UNCHANGED <<now, shares, attributes, entities, activities,
                           webhooks, logoBase64Cache, inflight>>

(***************************************************************************)
(* The quotation PDF (GET /api/quote/[id]/[token]/pdf).                    *)
(***************************************************************************)
\* SELECT id FROM table_definitions WHERE organization_id = ? AND
\* name = 'calculations', or the hardcoded table.
CalculationsTableId(organizationId) ==
    LET rows == {d \in TableDefinitions :
                    d.organization_id = organizationId
                    /\ d.name = "calculations"}
    IN  IF organizationId # <<>> /\ rows # {}
        THEN (CHOOSE d \in rows : TRUE).id
        ELSE EAV_TABLES.calculations

NoQuote == [found |-> FALSE]

getCalculationByShareToken(shs, ents, attrs, calculationId, token) ==
    LET shareResult == SharesByToken(shs, calculationId, token)
        shareRow == FirstShare(shareResult)
        entityResult ==
            CalcEntities(ents, attrs,
                CalculationsTableId(shareRow.organization_id), calculationId)
        entityId == CHOOSE e \in entityResult : \A x \in entityResult : e <= x
    IN  IF shareResult = {} THEN NoQuote
        ELSE IF entityResult = {} THEN NoQuote
        ELSE [found |-> TRUE,
              calculation |->
                [id |-> calculationId,
                 name |-> IF AttrValue(attrs, entityId, "name") = <<>>
                          THEN Str("Cenova ponuka")
                          ELSE AttrValue(attrs, entityId, "name"),
                 approvalStatus |->
                     IF AttrValue(attrs, entityId, "approvalStatus") = <<>>
                     THEN Str("DRAFT")
                     ELSE AttrValue(attrs, entityId, "approvalStatus")],
              share |-> [token |-> shareRow.token, status |-> shareRow.status,
                         clientResponse |-> shareRow.client_response]]

\* The logo file as a data URL.
LogoDataUrl == Str("data:image/jpeg;base64,logo")

\* getLogoBase64 of the PDF route: the cached logo, or the file read now
\* (and cached), or '' when the file cannot be read.
getLogoBase64(cache, fileOk) ==
    IF cache # <<>> THEN [ret |-> cache, cache |-> cache, reads |-> 0]
    ELSE IF fileOk
    THEN [ret |-> LogoDataUrl, cache |-> LogoDataUrl, reads |-> 1]
    ELSE [ret |-> <<>>, cache |-> cache, reads |-> 1]

\* A call of getLogoBase64.
GetLogoBase64 ==
    /\ last.op = "idle"
    /\ \E fileOk \in BOOLEAN :
        LET r == getLogoBase64(logoBase64Cache, fileOk)
        IN  /\ last' = [op |-> "getLogoBase64", fileOk |-> fileOk,
                        ret |-> r.ret, reads |-> r.reads,
                        cache |-> logoBase64Cache]
            /\ logoBase64Cache' = r.cache
    /\ UNCHANGED <<now, shares, attributes, entities, activities, webhooks,
                   translationCache, inflight>>

PdfResponse(id, token, lang, status, rendered, title, logo, t) ==
    [op |-> "pdf", at |-> t, id |-> id, token |-> token, lang |-> lang,
     status |-> status, rendered |-> rendered, title |-> title,
     logo |-> logo]

PdfRoute ==
    /\ last.op = "idle"
    /\ \E target \in QuoteTargets \cup {<<Str("k1"), <<>>>>, <<<<>>, Str("tok1")>>},
          lang \in {Str("sk"), Str("de-AT")},
          api \in {a \in ApiResponses(1) : a.kind = "nokey" \/ a.n = 1},
          fileOk \in BOOLEAN, renderOk \in BOOLEAN :
        LET id == target[1]
            token == target[2]
            result == getCalculationByShareToken(shares, entities, attributes,
                                                 id, token)
            found == id # <<>> /\ token # <<>> /\ result.found
            translates == found /\ lang # Str("sk")
            tr == translateBatch(translationCache, <<result.calculation.name>>,
                                 lang, Str("sk"), api)
            logo == getLogoBase64(logoBase64Cache, fileOk)
        IN  /\ last' =
                   IF id = <<>> \/ token = <<>>
                   THEN PdfResponse(id, token, lang, 400, FALSE, <<>>, <<>>, now)
                   ELSE IF ~result.found
                   THEN PdfResponse(id, token, lang, 403, FALSE, <<>>, <<>>, now)
                   ELSE IF ~renderOk
                   THEN PdfResponse(id, token, lang, 500, FALSE, <<>>, <<>>, now)
                   ELSE PdfResponse(id, token, lang, 200, TRUE,
                            IF translates THEN tr.ret[1]
                            ELSE result.calculation.name, logo.ret, now)
            /\ translationCache' =
                   IF translates THEN tr.cache ELSE translationCache
            /\ logoBase64Cache' =
                   IF found THEN logo.cache ELSE logoBase64Cache
            /\ UNCHANGED <<now, shares, attributes, entities, activities,
                           webhooks, inflight>>

(***************************************************************************)
(* The portal: the login route, the session-protected routes and the clock.*)
(***************************************************************************)
Share(id, calculationId, token, status, expiresAt, organizationId, createdAt) ==
    [id |-> id, calculation_id |-> calculationId, token |-> token,
     status |-> status, expires_at |-> expiresAt, client_response |-> "",
     client_comment |-> <<>>, responded_at |-> 0,
     organization_id |-> organizationId, created_at |-> createdAt]

Attr(id, entityId, name, value) ==
    [id |-> id, entity_id |-> entityId, attribute_name |-> name,
     string_value |-> value]

Init ==
    /\ now = 0
    /\ shares = <<>>
    /\ entities = {[id |-> 1, table_id |-> EAV_TABLES.calculations,
                    created_at |-> 0]}
    /\ attributes = {Attr(1, 1, "id", Str("k1")),
                     Attr(2, 1, "clientEntityId", Str("c1")),
                     Attr(3, 1, "projectId", Str("p1"))}
    /\ activities = <<>>
    /\ webhooks = <<>>
    /\ translationCache = {}
    /\ logoBase64Cache = <<>>
    /\ inflight = <<>>
    /\ last = Idle

Next ==
    \/ Tick
    \/ Return
    \/ Login
    \/ ProjectsRoute
    \/ CalculationsRoute
    \/ ProductTemplatesRoute
    \/ ProductTemplatesEntityRoute
    \/ OrderRequestRoute
    \/ RespondWaitingRoute

Spec == Init /\ [][Next]_vars

(***************************************************************************)
(* Quote responses and the quotation PDF over a database with shares: an   *)
(* active share without expiry (k1), an active share of organisation o2    *)
(* that expires in the current second (k2), a share already responded to   *)
(* (k3) and an expired share (k2).  The calculations of o2 are in the      *)
(* organisation's own table.                                               *)
(***************************************************************************)
InitQuote ==
    /\ now = TickMs
    /\ shares = << Share(1, Str("k1"), Str("tok1"), "active", 0, Str("o1"), 1),
                   Share(2, Str("k2"), Str("tok2"), "active", TickMs \div 1000,
                         Str("o2"), 2),
                   [Share(3, Str("k3"), Str("tok3"), "responded", 0, Str("o1"), 3)
                       EXCEPT !.client_response = "approved",
                              !.responded_at = 4],
                   Share(4, Str("k2"), Str("tok4"), "active", 100, Str("o2"), 1) >>
    /\ entities = {[id |-> 1, table_id |-> EAV_TABLES.calculations,
                    created_at |-> 0],
                   [id |-> 2, table_id |-> "o2-calculations", created_at |-> 0],
                   [id |-> 3, table_id |-> EAV_TABLES.calculations,
                    created_at |-> 0]}
    /\ attributes = {Attr(1, 1, "id", Str("k1")),
                     Attr(2, 1, "clientEntityId", Str("ce1")),
                     Attr(3, 1, "name", Str("a")),
                     Attr(4, 2, "id", Str("k2")),
                     Attr(5, 3, "id", Str("k3")),
                     Attr(6, 3, "clientEntityId", Str("ce1")),
                     Attr(7, 3, "approvalStatus", Str("CLIENT_APPROVED"))}
    /\ activities = <<>>
    /\ webhooks = <<>>
    /\ translationCache = {}
    /\ logoBase64Cache = <<>>
    /\ inflight = <<>>
    /\ last = Idle

NextQuote ==
    \/ Return
    \/ UpdateQuoteResponse
    \/ UpdateQuoteResponseDb
    \/ QuoteRespondRoute
    \/ RespondWaitingRoute

SpecQuote == InitQuote /\ [][NextQuote]_vars

(***************************************************************************)
(* The quotation PDF over the same database, after any legacy response.    *)
(***************************************************************************)
NextPdf ==
    \/ Return
    \/ UpdateQuoteResponseDb
    \/ PdfRoute

SpecPdf == InitQuote /\ [][NextPdf]_vars

(***************************************************************************)
(* updateQuoteResponse statement by statement.  Every db.execute and the   *)
(* fetch of the webhook is awaited, so the statements of calls that run at *)
(* the same time interleave; there is no transaction.  inflight holds one  *)
(* record per call: the statement it is at and its local variables.        *)
(***************************************************************************)
\* The (calculation id, token) pairs of the concurrent calls.
ResponseTargets ==
    { <<Str("k1"), Str("tok1")>>, <<Str("k3"), Str("tok3")>>,
      <<Str("k2"), Str("tok4")>> }

ResponseCall(target, action) ==
    [pc |-> "selectShare", calculationId |-> target[1], token |-> target[2],
     action |-> action, comment |-> <<>>, organizationId |-> <<>>,
     entityId |-> 0, existingAttr |-> FALSE, ret |-> FALSE]

\* A client submits a response: updateQuoteResponse is called.
StartResponse ==
    /\ Len(inflight) < MaxRequests
    /\ \E target \in ResponseTargets, action \in QuoteActions :
          inflight' = Append(inflight, ResponseCall(target, action))
    /\ UNCHANGED <<now, shares, attributes, entities, activities, webhooks,
                   translationCache, logoBase64Cache, last>>

\* SELECT id, expires_at, status FROM calculation_shares ...; the checks.
ResponseSelectShare ==
    \E p \in DOMAIN inflight :
        LET c == inflight[p]
            shareResult == SharesByToken(shares, c.calculationId, c.token)
        IN  /\ c.pc = "selectShare"
            /\ inflight' = [inflight EXCEPT ![p] =
                   IF shareResult = {} \/ ShareExpired(FirstShare(shareResult), now)
                   THEN [c EXCEPT !.pc = "done", !.ret = FALSE]
                   ELSE [c EXCEPT !.pc = "updateShare"]]
            /\ UNCHANGED <<now, shares, attributes, entities, activities,
                           webhooks, translationCache, logoBase64Cache, last>>

\* UPDATE calculation_shares SET status, client_response, client_comment ...
ResponseUpdateShare ==
    \E p \in DOMAIN inflight :
        LET c == inflight[p]
        IN  /\ c.pc = "updateShare"
            /\ shares' = UpdateShares(shares, c.calculationId, c.token,
                                      c.action, c.comment, now)
            /\ inflight' = [inflight EXCEPT ![p] =
                   [c EXCEPT !.pc = IF approvalStatusMap(c.action) # <<>>
                                    THEN "selectEntity" ELSE "logActivity"]]
            /\ UNCHANGED <<now, attributes, entities, activities, webhooks,
                           translationCache, logoBase64Cache, last>>

\* SELECT e.id ... WHERE e.table_id = ? AND a.attribute_name = 'id' ...
ResponseSelectEntity ==
    \E p \in DOMAIN inflight :
        LET c == inflight[p]
            entityResult == CalcEntities(entities, attributes,
                                EAV_TABLES.calculations, c.calculationId)
        IN  /\ c.pc = "selectEntity"
            /\ inflight' = [inflight EXCEPT ![p] =
                   IF entityResult = {} THEN [c EXCEPT !.pc = "logActivity"]
                   ELSE [c EXCEPT !.pc = "selectAttr",
                            !.entityId = CHOOSE e \in entityResult :
                                            \A x \in entityResult : e <= x]]
            /\ UNCHANGED <<now, shares, attributes, entities, activities,
                           webhooks, translationCache, logoBase64Cache, last>>

\* SELECT id FROM attributes WHERE entity_id = ? AND
\* attribute_name = 'approvalStatus'
ResponseSelectAttr ==
    \E p \in DOMAIN inflight :
        LET c == inflight[p]
        IN  /\ c.pc = "selectAttr"
            /\ inflight' = [inflight EXCEPT ![p] =
                   [c EXCEPT !.pc = "writeAttr",
                             !.existingAttr =
                                \E a \in attributes :
                                    /\ a.entity_id = c.entityId
                                    /\ a.attribute_name = "approvalStatus"]]
            /\ UNCHANGED <<now, shares, attributes, entities, activities,
                           webhooks, translationCache, logoBase64Cache, last>>

\* UPDATE attributes SET string_value = ? ..., or INSERT INTO attributes,
\* as the SELECT before it decided.
ResponseWriteAttr ==
    \E p \in DOMAIN inflight :
        LET c == inflight[p]
            value == approvalStatusMap(c.action)
        IN  /\ c.pc = "writeAttr"
            /\ attributes' =
                   IF c.existingAttr
                   THEN {IF a.entity_id = c.entityId
                            /\ a.attribute_name = "approvalStatus"
                         THEN [a EXCEPT !.string_value = value] ELSE a :
                            a \in attributes}
                   ELSE attributes \cup
                            {[id |-> NextAttrId(attributes),
                              entity_id |-> c.entityId,
                              attribute_name |-> "approvalStatus",
                              string_value |-> value]}
            /\ inflight' = [inflight EXCEPT ![p] = [c EXCEPT !.pc = "logActivity"]]
            /\ UNCHANGED <<now, shares, entities, activities, webhooks,
                           translationCache, logoBase64Cache, last>>

\* SELECT organization_id FROM calculation_shares ...; INSERT INTO
\* calculation_activities
ResponseLogActivity ==
    \E p \in DOMAIN inflight :
        LET c == inflight[p]
            orgResult == SharesByToken(shares, c.calculationId, c.token)
        IN  /\ c.pc = "logActivity"
            /\ activities' = Append(activities,
                   Activity(c.calculationId, ActivityAction(c.action), c.comment,
                            FirstShare(orgResult).organization_id, now))
            /\ inflight' = [inflight EXCEPT ![p] = [c EXCEPT !.pc = "webhook"]]
            /\ UNCHANGED <<now, shares, attributes, entities, webhooks,
                           translationCache, logoBase64Cache, last>>

\* fetch(`${webhookUrl}/api/webhooks/quote-response`); return true
ResponseSendWebhook ==
    \E p \in DOMAIN inflight :
        LET c == inflight[p]
        IN  /\ c.pc = "webhook"
            /\ webhooks' = Append(webhooks,
                   Webhook(c.calculationId, c.token, c.action, c.comment))
            /\ inflight' = [inflight EXCEPT ![p] =
                   [c EXCEPT !.pc = "done", !.ret = TRUE]]
            /\ UNCHANGED <<now, shares, attributes, entities, activities,
                           translationCache, logoBase64Cache, last>>

NextRespond ==
    \/ StartResponse
    \/ ResponseSelectShare
    \/ ResponseUpdateShare
    \/ ResponseSelectEntity
    \/ ResponseSelectAttr
    \/ ResponseWriteAttr
    \/ ResponseLogActivity
    \/ ResponseSendWebhook

SpecRespond == InitQuote /\ [][NextRespond]_vars

(***************************************************************************)
(* POST /api/order-request statement by statement: getOrCreateProject      *)
(* awaits its SELECT, the INSERT of the entity and each of the nine        *)
(* attribute INSERTs in turn, without a transaction, and the route then    *)
(* awaits the upstream request.  Requests that arrive together interleave  *)
(* at these awaits.                                                        *)
(***************************************************************************)
ProjectAttributeCount == 9

OrderCall(customer) ==
    [pc |-> "selectProject", customerId |-> customer.id,
     customerName |-> customer.name, projectName |-> Str("Dopyt"),
     entityId |-> 0, projectId |-> <<>>, inserted |-> 0, status |-> 0]

\* A signed-in client posts a cart: the route calls getOrCreateProject.
StartOrder ==
    /\ Len(inflight) < MaxRequests
    /\ \E customer \in Customers :
          inflight' = Append(inflight, OrderCall(customer))
    /\ UNCHANGED <<now, shares, attributes, entities, activities, webhooks,
                   translationCache, logoBase64Cache, last>>

\* SELECT DISTINCT e.id as entityId, a2.string_value as projectId ...
OrderSelectProject ==
    \E p \in DOMAIN inflight :
        LET c == inflight[p]
            existing == ExistingProjects(entities, attributes, c.customerId)
        IN  /\ c.pc = "selectProject"
            /\ inflight' = [inflight EXCEPT ![p] =
                   IF existing # {}
                   THEN [c EXCEPT !.pc = "forward",
                            !.entityId = NewestEntity(existing).id,
                            !.projectId = AttrValue(attributes,
                                              NewestEntity(existing).id, "id")]
                   ELSE [c EXCEPT !.pc = "insertEntity"]]
            /\ UNCHANGED <<now, shares, attributes, entities, activities,
                           webhooks, translationCache, logoBase64Cache, last>>

\* crypto.randomUUID() twice; INSERT INTO entities (id, table_id, ...)
OrderInsertEntity ==
    \E p \in DOMAIN inflight :
        LET c == inflight[p]
            entityId == NextEntityId(entities)
        IN  /\ c.pc = "insertEntity"
            /\ entities' = entities \cup
                   {[id |-> entityId, table_id |-> PROJECTS_TABLE_ID,
                     created_at |-> now \div 1000]}
            /\ inflight' = [inflight EXCEPT ![p] =
                   [c EXCEPT !.pc = "insertAttribute", !.entityId = entityId,
                        !.projectId = <<Ch("project"), Ch(ToString(entityId))>>]]
            /\ UNCHANGED <<now, shares, attributes, activities, webhooks,
                           translationCache, logoBase64Cache, last>>

\* for (const attr of attributes) { await db.execute(INSERT INTO attributes) }
OrderInsertAttribute ==
    \E p \in DOMAIN inflight :
        LET c == inflight[p]
            \* crypto.randomUUID(): an id that no other row has
            attrId == c.entityId * (ProjectAttributeCount + 1) + c.inserted + 1
            rows == ProjectAttributes(c.entityId, c.projectId, c.projectName,
                        c.customerName, c.customerId, attrId - c.inserted, now)
        IN  /\ c.pc = "insertAttribute"
            /\ attributes' = attributes \cup {r \in rows : r.id = attrId}
            /\ inflight' = [inflight EXCEPT ![p] =
                   [c EXCEPT !.inserted = c.inserted + 1,
                        !.pc = IF c.inserted + 1 = ProjectAttributeCount
                               THEN "forward" ELSE "insertAttribute"]]
            /\ UNCHANGED <<now, shares, entities, activities, webhooks,
                           translationCache, logoBase64Cache, last>>

\* fetch(`${API_BASE_URL}/api/public/v1/calculations...`); the response
OrderForward ==
    \E p \in DOMAIN inflight, upstream \in UpstreamOutcomes :
        LET c == inflight[p]
        IN  /\ c.pc = "forward"
            /\ inflight' = [inflight EXCEPT ![p] =
                   [c EXCEPT !.pc = "done",
                             !.status = ForwardStatus(upstream, 201, 500)]]
            /\ UNCHANGED <<now, shares, attributes, entities, activities,
                           webhooks, translationCache, logoBase64Cache, last>>

NextOrders ==
    \/ StartOrder
    \/ OrderSelectProject
    \/ OrderInsertEntity
    \/ OrderInsertAttribute
    \/ OrderForward

SpecOrders == Init /\ [][NextOrders]_vars

(***************************************************************************)
(* The paginated listings over databases of up to MaxRows projects and     *)
(* MaxRows calculations, each of the client ce1 or of another client.      *)
(***************************************************************************)
PageKinds == {"ce1", "ce2", "name", "both"}

\* The clientEntityId and the client name of a row of a kind: of the client
\* ce1, of the client ce2, of ce1 by its name only, of ce1 by both.
KindClient(kind) ==
    IF kind \in {"ce1", "both"} THEN Str("ce1")
    ELSE IF kind = "ce2" THEN Str("ce2") ELSE Str("ce3")

KindName(kind) ==
    IF kind \in {"name", "both"} THEN <<Ch("x"), Ch("a")>>
    ELSE IF kind = "ce2" THEN Str("B") ELSE <<>>

PageEntities(n) ==
    {[id |-> i, table_id |-> EAV_TABLES.projects, created_at |-> 0] :
        i \in 1..n}
    \cup {[id |-> n + i, table_id |-> EAV_TABLES.calculations,
           created_at |-> 0] : i \in 1..n}

PageAttributes(n, kind) ==
    {Attr(4 * i, i, "clientEntityId", KindClient(kind[i])) : i \in 1..n}
    \cup {Attr(4 * i + 1, i, "companyName", KindName(kind[i])) :
            i \in {j \in 1..n : KindName(kind[j]) # <<>>}}
    \cup {Attr(4 * (n + i), n + i, "clientEntityId", KindClient(kind[i])) :
            i \in 1..n}
    \cup {Attr(4 * (n + i) + 1, n + i, "calculationData.selectedClient.name",
               KindName(kind[i])) :
            i \in {j \in 1..n : KindName(kind[j]) # <<>>}}
    \cup {Attr(4 * (n + i) + 2, n + i, "projectId",
               IF kind[i] = "ce2" THEN Str("p2") ELSE Str("p1")) : i \in 1..n}
    \cup {Attr(4 * (n + i) + 3, n + i, "id", <<Ch("k"), Ch(i)>>) : i \in 1..n}

InitPage ==
    /\ now = TickMs
    /\ shares = << Share(1, <<Ch("k"), Ch(1)>>, Str("tok1"), "active", 0,
                         Str("o1"), 1) >>
    /\ \E n \in 0..MaxRows :
       \E kind \in [1..n -> PageKinds] :
        /\ entities = PageEntities(n)
        /\ attributes = PageAttributes(n, kind)
    /\ activities = <<>>
    /\ webhooks = <<>>
    /\ translationCache = {}
    /\ logoBase64Cache = <<>>
    /\ inflight = <<>>
    /\ last = Idle

\* The (clientEntityId, clientName) pairs of the listing requests.
PageClients == {<<Str("ce1"), Str("A")>>, <<Str("ce2"), Str("B")>>}

PageCall(op, arg, limit, offset, result) ==
    [op |-> op, arg |-> arg, limit |-> limit, offset |-> offset,
     items |-> result.items, total |-> result.total,
     hasMore |-> result.hasMore]

GetClientProjects ==
    /\ last.op = "idle"
    /\ \E limit \in 0..MaxLimit, offset \in 0..MaxLimit, c \in PageClients :
        last' = PageCall("getClientProjects", c[1], limit, offset,
                    getClientProjects(entities, attributes, c[1], c[2],
                                      limit, offset, now))
    /\ UNCHANGED <<now, shares, attributes, entities, activities, webhooks,
                   translationCache,
                   logoBase64Cache, inflight>>

GetClientCalculations ==
    /\ last.op = "idle"
    /\ \E limit \in 0..MaxLimit, offset \in 0..MaxLimit, c \in PageClients :
        last' = PageCall("getClientCalculations", c[1], limit, offset,
                    getClientCalculations(entities, attributes, shares, c[1],
                                          c[2], limit, offset, now))
    /\ UNCHANGED <<now, shares, attributes, entities, activities, webhooks,
                   translationCache,
                   logoBase64Cache, inflight>>

GetProjectCalculations ==
    /\ last.op = "idle"
    /\ \E limit \in 0..MaxLimit, offset \in 0..MaxLimit,
          p \in {Str("p1"), Str("p2")} :
        last' = PageCall("getProjectCalculations", p, limit, offset,
                    getProjectCalculations(entities, attributes, shares, p,
                                           limit, offset, now))
    /\ UNCHANGED <<now, shares, attributes, entities, activities, webhooks,
                   translationCache,
                   logoBase64Cache, inflight>>

NextPage ==
    \/ Return
    \/ GetClientProjects
    \/ GetClientCalculations
    \/ GetProjectCalculations

SpecPage == InitPage /\ [][NextPage]_vars

(***************************************************************************)
(* translateBatch over the translation cache.                              *)
(***************************************************************************)
InitTranslate ==
    /\ now = 0
    /\ shares = <<>>
    /\ entities = {}
    /\ attributes = {}
    /\ activities = <<>>
    /\ webhooks = <<>>
    /\ translationCache = {}
    /\ logoBase64Cache = <<>>
    /\ inflight = <<>>
    /\ last = Idle

NextTranslate ==
    \/ Return
    \/ TranslateBatch
    \/ GetLogoBase64

SpecTranslate == InitTranslate /\ [][NextTranslate]_vars


(***************************************************************************)
(* Price reconstruction of the quotation PDF and of the quote page.        *)
(* Amounts are whole numbers; a field that is missing, null, '' or not a   *)
(* number is 0 here, because every read has the form Number(x) || ...      *)
(* and NaN and 0 both fall through.                                        *)
(***************************************************************************)
\* a || b on numbers
OrElse(a, b) == IF a # 0 THEN a ELSE b

PriceValues == (-1)..MaxPrice

Multipliers == {0, 2}

GlobalPricings == [clientMultiplier : Multipliers, deliveryMultiplier : Multipliers]

\* A product of calculationData.products; unitSalePrice and basePrice are
\* the fields of p.variant.
Products ==
    [totalSale : PriceValues, originalSalePrice : PriceValues,
     finalPrice : PriceValues, price : PriceValues, quantity : PriceValues,
     unitSalePrice : PriceValues, unitPrice : PriceValues,
     basePrice : PriceValues]

\* clientMultiplier * deliveryMultiplier, each Number(...) || 1
CombinedMultiplier(globalPricing) ==
    OrElse(globalPricing.clientMultiplier, 1)
        * OrElse(globalPricing.deliveryMultiplier, 1)

\* The mutant: the quantity is used as it is stored.
computeBaseProductTotalRawQuantity(p, combinedMultiplier) ==
    LET salePrice == OrElse(p.totalSale, OrElse(p.originalSalePrice, 0))
        productPrice == OrElse(p.finalPrice, OrElse(p.price, 0))
        qty == p.quantity
        unitPrice == OrElse(p.unitSalePrice, OrElse(p.unitPrice, 0))
        basePrice == OrElse(p.basePrice, 0)
    IN  IF salePrice > 0 THEN salePrice * combinedMultiplier
        ELSE IF productPrice > 0 THEN productPrice * combinedMultiplier
        ELSE IF unitPrice > 0 THEN unitPrice * qty * combinedMultiplier
        ELSE basePrice * combinedMultiplier

computeBaseProductTotal(p, combinedMultiplier) ==
    LET salePrice == OrElse(p.totalSale, OrElse(p.originalSalePrice, 0))
        productPrice == OrElse(p.finalPrice, OrElse(p.price, 0))
        qty == OrElse(p.quantity, 1)
        unitPrice == OrElse(p.unitSalePrice, OrElse(p.unitPrice, 0))
        basePrice == OrElse(p.basePrice, 0)
    IN  IF salePrice > 0 THEN salePrice * combinedMultiplier
        ELSE IF productPrice > 0 THEN productPrice * combinedMultiplier
        ELSE IF unitPrice > 0 THEN unitPrice * qty * combinedMultiplier
        ELSE basePrice * combinedMultiplier

\* The route prices one product of the calculation it has loaded.
ComputeBaseProductTotal ==
    /\ last.op = "idle"
    /\ \E p \in Products, globalPricing \in GlobalPricings :
          last' = [op |-> "computeBaseProductTotal", p |-> p,
                   globalPricing |-> globalPricing,
                   ret |-> computeBaseProductTotal(p,
                               CombinedMultiplier(globalPricing))]
    /\ UNCHANGED <<now, shares, attributes, entities, activities, webhooks,
                   translationCache, logoBase64Cache, inflight>>

NextProductTotal ==
    \/ Return
    \/ ComputeBaseProductTotal

SpecProductTotal == InitTranslate /\ [][NextProductTotal]_vars

(***************************************************************************)
(* GET /api/quote/[id]/[token]/pdf: the totals and the line items of the   *)
(* document, as a function of the calculation the route has loaded.  The   *)
(* markup ratio totalAmount / baseTotal is kept as a fraction n/d, and     *)
(* every amount of the result is a numerator over the same d.              *)
(***************************************************************************)
RECURSIVE SumSeq(_)
\* amounts.reduce((sum, x) => sum + x, 0)
SumSeq(amounts) ==
    IF amounts = <<>> THEN 0 ELSE Head(amounts) + SumSeq(Tail(amounts))

\* items.reduce((sum, x) => sum + F(x), 0)
SumOver(items, F(_)) == SumSeq([i \in 1..Len(items) |-> F(items[i])])

\* The amounts of a stored calculation: none is negative.
Amounts == 0..MaxPrice

\* The calculations the route prices: products with a sale or a base price,
\* services, materials with a sale price or a unit price and a quantity.
PdfCalculations ==
    [products : SeqsUpTo([totalSale : Amounts, originalSalePrice : {0},
                          finalPrice : {0}, price : {0}, quantity : {0},
                          unitSalePrice : {0}, unitPrice : {0},
                          basePrice : Amounts], MaxItems),
     services : SeqsUpTo([totalSale : Amounts, calculatedPrice : {0},
                          salePrice : {0}, calculatedCost : Amounts],
                         MaxItems),
     materials : SeqsUpTo([totalSale : Amounts, totalCost : {0},
                           salePrice : Amounts, quantity : Amounts],
                          MaxItems),
     totalPrice : Amounts \cup {MaxPrice + 2},
     actualTotalPrice : {0, MaxPrice},
     globalPricing : GlobalPricings]

\* Number(s.totalSale) || Number(s.calculatedPrice) || Number(s.salePrice)
\* || Number(s.calculatedCost) || 0
ServiceSalePrice(s) ==
    OrElse(s.totalSale, OrElse(s.calculatedPrice,
        OrElse(s.salePrice, OrElse(s.calculatedCost, 0))))

PriceReconstruction(calculation) ==
    LET combinedMultiplier == CombinedMultiplier(calculation.globalPricing)
        totalAmount == OrElse(calculation.totalPrice,
                              OrElse(calculation.actualTotalPrice, 0))
        BaseProduct(p) == computeBaseProductTotal(p, combinedMultiplier)
        BaseService(x) == ServiceSalePrice(x) * combinedMultiplier
        BaseMaterial(m) ==
            OrElse(m.totalSale, OrElse(m.totalCost, 0)) * combinedMultiplier
        baseTotal == SumOver(calculation.products, BaseProduct)
                        + SumOver(calculation.services, BaseService)
                        + SumOver(calculation.materials, BaseMaterial)
        markupRatio == IF totalAmount > 0 /\ baseTotal > 0
                       THEN [n |-> totalAmount, d |-> baseTotal]
                       ELSE [n |-> 1, d |-> 1]
        computeProductTotal(p) == BaseProduct(p) * markupRatio.n
        computeServiceTotal(x) == BaseService(x) * markupRatio.n
        MaterialTotal(m) ==
            OrElse(m.totalSale, OrElse(m.totalCost,
                OrElse(m.salePrice * OrElse(m.quantity, 1), 0)))
                * combinedMultiplier * markupRatio.n
        productTotal == SumOver(calculation.products, computeProductTotal)
        serviceTotalFinal == SumOver(calculation.services, computeServiceTotal)
        globalTotal == IF totalAmount > 0 THEN totalAmount * markupRatio.d
                       ELSE productTotal + serviceTotalFinal
        listed == SelectSeq(calculation.services,
                            LAMBDA x : computeServiceTotal(x) > 0)
    IN  [markupRatio |-> markupRatio, globalTotal |-> globalTotal,
         allItems |->
            [i \in 1..Len(calculation.products) |->
                [kind |-> "product",
                 total |-> computeProductTotal(calculation.products[i])]]
            \o [i \in 1..Len(listed) |->
                [kind |-> "service", total |-> computeServiceTotal(listed[i])]]
            \o [i \in 1..Len(calculation.materials) |->
                [kind |-> "material",
                 total |-> MaterialTotal(calculation.materials[i])]]]

\* The route builds the totals and the line items of the document.
PdfPrices ==
    /\ last.op = "idle"
    /\ \E calculation \in PdfCalculations :
          last' = [op |-> "pdfPrices", calculation |-> calculation,
                   ret |-> PriceReconstruction(calculation)]
    /\ UNCHANGED <<now, shares, attributes, entities, activities, webhooks,
                   translationCache, logoBase64Cache, inflight>>

NextPrices ==
    \/ Return
    \/ PdfPrices

SpecPrices == InitTranslate /\ [][NextPrices]_vars

(***************************************************************************)
(* Reconstruction of an entity from its attribute rows.  A row has five    *)
(* typed columns; a column is NULL or holds a value.  boolean_value is an  *)
(* INTEGER column of SQLite and comes back as 0 or 1.                      *)
(***************************************************************************)
SqlNull == [t |-> "null"]
SqlText(v) == [t |-> "string", v |-> v]
SqlNumber(v) == [t |-> "number", v |-> v]

\* JavaScript truthiness of a column value: null, '' and 0 are falsy.
Truthy(x) ==
    /\ x.t # "null"
    /\ ~(x.t = "string" /\ x.v = <<>>)
    /\ ~(x.t = "number" /\ x.v = 0)

\* a || b
JsOr(a, b) == IF Truthy(a) THEN a ELSE b

\* row.string_value || row.number_value || row.boolean_value
\* || row.date_value || row.json_value
RowValue(row) ==
    JsOr(row.string_value, JsOr(row.number_value, JsOr(row.boolean_value,
        JsOr(row.date_value, row.json_value))))

EmptyRow(entityId, name) ==
    [entity_id |-> entityId, attribute_name |-> name, string_value |-> SqlNull,
     number_value |-> SqlNull, boolean_value |-> SqlNull,
     date_value |-> SqlNull, json_value |-> SqlNull]

\* The attribute rows of the table: one typed column holds the value.
TypedRows ==
    UNION { { [EmptyRow(e, name) EXCEPT !.string_value = SqlText(v)] :
                 v \in {<<>>, Str("x")} }
            \cup { [EmptyRow(e, name) EXCEPT !.number_value = SqlNumber(v)] :
                 v \in 0..1 }
            \cup { [EmptyRow(e, name) EXCEPT !.boolean_value = SqlNumber(v)] :
                 v \in 0..1 }
            \cup { [EmptyRow(e, name) EXCEPT !.date_value = SqlText(v)] :
                 v \in {IsoDate(0)} }
            \cup { [EmptyRow(e, name) EXCEPT !.json_value = SqlText(v)] :
                 v \in {Str("[]")} } :
            e \in 1..2, name \in {"totalPrice", "name"} }

RECURSIVE LoadRows(_, _)
\* for (const row of result.rows) { ... data[name] = ... }
LoadRows(dataMap, rows) ==
    IF rows = <<>> THEN dataMap
    ELSE LET row == Head(rows)
             data == IF row.entity_id \in DOMAIN dataMap
                     THEN dataMap[row.entity_id] ELSE <<>>
             set == (row.attribute_name :> RowValue(row)) @@ data
         IN  LoadRows((row.entity_id :> set) @@ dataMap, Tail(rows))

\* getBatchEavEntityData over the rows the SELECT returns.
getBatchEavEntityData(rows, entityIds) ==
    IF entityIds = {} THEN <<>>
    ELSE LoadRows(<<>>, SelectSeq(rows, LAMBDA r : r.entity_id \in entityIds))

\* getCalculationById, the data record: { id: calculationId } and the rows
\* of the entity.
CalculationDataOf(rows, entityId, calculationId) ==
    LoadRows((entityId :> ("id" :> SqlText(calculationId))),
             SelectSeq(rows, LAMBDA r : r.entity_id = entityId))[entityId]

GetBatchEavEntityData ==
    /\ last.op = "idle"
    /\ \E rows \in SeqsUpTo(TypedRows, MaxAttrs), entityIds \in SUBSET (1..2) :
          last' = [op |-> "getBatchEavEntityData", rows |-> rows,
                   entityIds |-> entityIds,
                   ret |-> getBatchEavEntityData(rows, entityIds)]
    /\ UNCHANGED <<now, shares, attributes, entities, activities, webhooks,
                   translationCache, logoBase64Cache, inflight>>

GetCalculationData ==
    /\ last.op = "idle"
    /\ \E rows \in SeqsUpTo(TypedRows, MaxAttrs), entityId \in 1..2 :
          last' = [op |-> "getCalculationById", rows |-> rows,
                   entityIds |-> {entityId},
                   ret |-> (entityId :>
                              CalculationDataOf(rows, entityId, Str("k1")))]
    /\ UNCHANGED <<now, shares, attributes, entities, activities, webhooks,
                   translationCache, logoBase64Cache, inflight>>

NextEav ==
    \/ Return
    \/ GetBatchEavEntityData
    \/ GetCalculationData

SpecEav == InitTranslate /\ [][NextEav]_vars

(***************************************************************************)
(* Claims about the session and the login route.                           *)
(***************************************************************************)
ProtectedOps ==
    {"projects", "calculations", "product-templates",
     "product-templates-entity", "order-request", "respond-waiting"}

\* A protected route has just handled a request (respond-waiting: one with a
\* calculation id in its path).
Handled(l) ==
    /\ l.op \in ProtectedOps
    /\ l.op = "respond-waiting" => l.id # <<>>

\* C1: a session-protected route answers 401, executes no database statement,
\* sends no upstream request and writes nothing whenever getSessionFromCookie
\* returns null for the request's cookie header.
C1_NoSessionNoAccess ==
    [][ (Handled(last') /\ last'.session.kind = "null")
        => /\ last'.status = 401
           /\ last'.statements = 0
           /\ last'.upstream = 0
           /\ UNCHANGED <<shares, attributes, entities, activities, webhooks>>
      ]_vars

\* Witness of C1: the projects route has refused a request whose only session
\* cookie holds an expired token of the login route.
C1_Witness ==
    /\ last.op = "projects"
    /\ last.status = 401
    /\ \E c \in Customers :
          last.header = Header(PairOf(createSessionCookie(
                            LoginSession(c, CustomerEmail(c)), 0)))
    /\ last.at > SessionTtlMs

\* The request's email is a non-empty string.
EmailGiven(l) == l.email.kind = "string" /\ l.email.text # <<>>

\* A customer whose email or contact email is the request's email, trimmed,
\* compared without regard to case.
CustomerFor(l) ==
    \E c \in Customers :
        \/ c.hasEmail
           /\ ToLowerCase(c.email) = ToLowerCase(Trim(l.email.text))
        \/ c.hasContactEmail
           /\ ToLowerCase(c.contact_email) = ToLowerCase(Trim(l.email.text))

\* findCustomerByEmail is reached, does not throw and finds a customer.
FindsCustomer(l) ==
    /\ l.configured /\ l.bodyOk /\ EmailGiven(l) /\ ~l.dbThrows
    /\ CustomerFor(l)

\* C2: the login route sets a session cookie exactly when findCustomerByEmail
\* finds a customer for the trimmed, lower-cased email; 503 for an
\* unconfigured database, 500 for a thrown error, 400 for a missing or
\* non-string email, 401 for an email of no customer, none with a cookie.
C2_LoginSetsCookieIffFound ==
    last.op = "login" =>
        /\ (last.setCookie # <<>>) <=> FindsCustomer(last)
        /\ FindsCustomer(last) => last.status = 200
        /\ last.status \in {200, 400, 401, 500, 503}
        /\ last.status # 200 => last.setCookie = <<>>
        /\ ~last.configured => last.status = 503
        /\ last.status = 503 => ~last.configured
        /\ (last.configured /\ ~last.bodyOk) => last.status = 500
        /\ (last.configured /\ last.bodyOk /\ EmailGiven(last) /\ last.dbThrows)
              => last.status = 500
        /\ last.status = 500 => (~last.bodyOk \/ last.dbThrows)
        /\ (last.configured /\ last.bodyOk /\ ~EmailGiven(last))
              => last.status = 400
        /\ last.status = 400 => ~EmailGiven(last)
        /\ (last.configured /\ last.bodyOk /\ EmailGiven(last) /\ ~last.dbThrows
                /\ ~CustomerFor(last)) => last.status = 401
        /\ last.status = 401 => (EmailGiven(last) /\ ~CustomerFor(last))

\* Witness of C2: a login with an email that needs trimming and lower-casing
\* has set the cookie.
C2_Witness ==
    /\ last.op = "login"
    /\ last.setCookie # <<>>
    /\ last.email.text = <<Ch(" "), Ch("A"), Ch("@"), Ch("X"), Ch(" ")>>

\* C3: every session parseSessionToken returns has an expiresAt that is not
\* earlier than the current time.
C3_NoExpiredSession ==
    (Handled(last) /\ last.session.kind = "session")
        => /\ last.session.s.hasExpiresAt
           /\ last.session.s.expiresAt >= last.at

\* The headers that hold the name=value pair createSessionCookie made for a
\* customer at time t0, alone or between other cookies.
HeadersWith(c, t0) ==
    LET pair == PairOf(createSessionCookie(LoginSession(c, CustomerEmail(c)), t0))
    IN  {Header(pair),
         Header(OtherPair \o <<Ch(";"), Ch(" ")>> \o pair
                \o <<Ch(";"), Ch(" ")>> \o OtherPairWithEquals)}

\* C4: getSessionFromCookie applied to the pair createSessionCookie produced
\* returns a session with the same customerId, customerName, email and
\* organizationId at every time less than 24 hours after creation, also
\* when other cookies are in the header.
C4_SessionRoundTrip ==
    \A c \in Customers, t0 \in ClockValues :
        (/\ Handled(last)
         /\ last.header \in HeadersWith(c, t0)
         /\ t0 <= last.at
         /\ last.at < t0 + SessionTtlMs)
        => /\ last.session.kind = "session"
           /\ last.session.s.customerId = c.id
           /\ last.session.s.customerName = c.name
           /\ last.session.s.email = ToLowerCase(CustomerEmail(c))
           /\ last.session.s.organizationId = c.organization_id

\* Witness of C4: a route has read, twelve hours after the login, the session
\* of a cookie that stands between two other cookies.
C4_Witness ==
    \E c \in Customers :
        /\ Handled(last)
        /\ last.session.kind = "session"
        /\ last.session.s.customerId = c.id
        /\ last.at = TickMs
        /\ last.header =
              Header(OtherPair \o <<Ch(";"), Ch(" ")>>
                     \o PairOf(createSessionCookie(
                            LoginSession(c, CustomerEmail(c)), 0))
                     \o <<Ch(";"), Ch(" ")>> \o OtherPairWithEquals)

\* The operations that call updateQuoteResponse directly.
QuoteOps == {"updateQuoteResponse", "updateQuoteResponseDb"}

\* The rows of calculation_shares with a calculation id and a token.
RowsOf(shs, calculationId, token) ==
    {i \in DOMAIN shs : shs[i].calculation_id = calculationId
                        /\ shs[i].token = token}

\* The value of the approvalStatus attribute of an entity.
ApprovalStatusIn(attrs, e) ==
    {a.string_value : a \in {x \in attrs : x.entity_id = e
                                /\ x.attribute_name = "approvalStatus"}}

\* C5: updateQuoteResponse called with the calculation id and token of an
\* active, unexpired share returns true, records the action as the share's
\* client_response, sets the approvalStatus of the calculation (the entity
\* of that id in the calculations table of the share's organisation) to
\* CLIENT_APPROVED, CLIENT_REJECTED or CLIENT_REQUESTED_CHANGES for approved,
\* rejected and requested_changes, and sets the share's status to
\* 'responded' for approved and to 'active' for every other action.
C5_ResponseRecorded ==
    [][ \A i \in DOMAIN shares :
          (/\ last'.op \in QuoteOps
           /\ i \in RowsOf(shares, last'.calculationId, last'.token)
           /\ shares[i].status = "active"
           /\ (shares[i].expires_at = 0
               \/ shares[i].expires_at >= now \div 1000))
          => /\ last'.ret
             /\ shares'[i].client_response = last'.action
             /\ shares'[i].status =
                   IF last'.action = "approved" THEN "responded" ELSE "active"
             /\ \A e \in CalcEntities(entities, attributes,
                            CalculationsTableId(shares[i].organization_id),
                            last'.calculationId) :
                   /\ last'.action = "approved"
                        => ApprovalStatusIn(attributes', e)
                              = {Str("CLIENT_APPROVED")}
                   /\ last'.action = "rejected"
                        => ApprovalStatusIn(attributes', e)
                              = {Str("CLIENT_REJECTED")}
                   /\ last'.action = "requested_changes"
                        => ApprovalStatusIn(attributes', e)
                              = {Str("CLIENT_REQUESTED_CHANGES")} ]_vars

\* C6: updateQuoteResponse returns false and changes no calculation_shares
\* row, no attribute, not the activity log and sends no webhook when no
\* share matches (calculationId, token) or when the matching share's
\* expires_at is set and earlier than the current time.
C6_RefusedChangesNothing ==
    [][ (/\ last'.op \in QuoteOps
         /\ \A i \in RowsOf(shares, last'.calculationId, last'.token) :
               shares[i].expires_at # 0
               /\ shares[i].expires_at < now \div 1000)
        => /\ ~last'.ret
           /\ UNCHANGED <<shares, attributes, activities, webhooks>> ]_vars

\* Witness of C6: updateQuoteResponse has refused the token of the expired
\* share.
C6_Witness ==
    /\ last.op = "updateQuoteResponse"
    /\ last.calculationId = Str("k2")
    /\ last.token = Str("tok4")
    /\ ~last.ret
    /\ shares[4].expires_at # 0
    /\ shares[4].expires_at < now \div 1000
    /\ shares[4].client_response = ""

\* C7: after updateQuoteResponse with action question_received, and after a
\* successful respond-waiting request, every approvalStatus attribute and
\* every share's status are as before; of a share only client_response,
\* client_comment and responded_at change.
C7_QuestionKeepsStatus ==
    [][ (\/ last'.op = "updateQuoteResponse"
            /\ last'.action = "question_received"
         \/ last'.op = "respond-waiting"
            /\ last'.outcome = "response_sent")
        => /\ {a \in attributes' : a.attribute_name = "approvalStatus"}
                = {a \in attributes : a.attribute_name = "approvalStatus"}
           /\ DOMAIN shares' = DOMAIN shares
           /\ \A i \in DOMAIN shares :
                 [shares'[i] EXCEPT
                     !.client_response = shares[i].client_response,
                     !.client_comment = shares[i].client_comment,
                     !.responded_at = shares[i].responded_at] = shares[i]
      ]_vars

\* C8: the quotation PDF route renders a PDF only when a calculation_shares
\* row matches both the calculation id and the token of the path; without
\* such a row the response is 403, with a missing id or token it is 400,
\* and in both cases no PDF is rendered.
C8_PdfNeedsShare ==
    last.op = "pdf" =>
        LET matches == \E i \in DOMAIN shares :
                          /\ shares[i].calculation_id = last.id
                          /\ shares[i].token = last.token
        IN  /\ (last.rendered \/ last.status = 200) => matches
            /\ (last.id = <<>> \/ last.token = <<>>)
                  => (last.status = 400 /\ ~last.rendered)
            /\ (last.id # <<>> /\ last.token # <<>> /\ ~matches)
                  => (last.status = 403 /\ ~last.rendered)

\* Witness of C8: the route has answered 403 to the token of a share of
\* another calculation.
C8_Witness ==
    /\ last.op = "pdf"
    /\ last.id = Str("k1")
    /\ last.token = Str("tok2")
    /\ last.status = 403
    /\ ~last.rendered
    /\ \E i \in DOMAIN shares : shares[i].token = Str("tok2")

PageOps == {"getClientProjects", "getClientCalculations",
            "getProjectCalculations"}

\* The entities a listing call is about.
MatchingEntities(l) ==
    {e \in entities :
        \/ /\ l.op = "getClientProjects"
           /\ e.table_id = EAV_TABLES.projects
           /\ \E a \in attributes : a.entity_id = e.id
                /\ \/ a.attribute_name = "clientEntityId"
                      /\ a.string_value = l.arg
                   \/ a.attribute_name = "companyName"
                      /\ \E c \in PageClients : c[1] = l.arg
                            /\ Like(a.string_value, c[2])
        \/ /\ l.op = "getClientCalculations"
           /\ e.table_id = EAV_TABLES.calculations
           /\ \E a \in attributes : a.entity_id = e.id
                /\ \/ a.attribute_name = "clientEntityId"
                      /\ a.string_value = l.arg
                   \/ a.attribute_name = "calculationData.selectedClient.name"
                      /\ \E c \in PageClients : c[1] = l.arg
                            /\ Like(a.string_value, c[2])
        \/ /\ l.op = "getProjectCalculations"
           /\ e.table_id = EAV_TABLES.calculations
           /\ \E a \in attributes : a.entity_id = e.id
                /\ a.attribute_name = "projectId"
                /\ a.string_value = l.arg}

C10_BatchKeepsShape ==
    last.op = "translateBatch" =>
        /\ ~last.threw
        /\ Len(last.ret) = Len(last.texts)
        /\ \A i \in 1..Len(last.texts) :
              \/ last.ret[i] = last.texts[i]
              \/ last.ret[i] =
                    <<Ch("tr")>>
                    \o (IF last.targetLang = Str("de-AT") THEN Str("de")
                        ELSE last.targetLang)
                    \o last.texts[i]

\* Witness of C10: of three texts the first is empty, the second came from
\* the cache and the service translated the third alone.
C10_Witness ==
    /\ last.op = "translateBatch"
    /\ last.api.kind = "ok"
    /\ last.api.n = 1
    /\ last.api.blank = {}
    /\ last.targetLang = Str("de-AT")
    /\ last.texts = <<<<>>, Str("a"), Str("b")>>
    /\ \E row \in last.cache : row.key = Str("a") \o Str(":") \o Str("sk")
                                           \o Str(":") \o Str("de")
    /\ last.ret[2] # Str("a")
    /\ last.ret[3] = <<Ch("tr")>> \o Str("de") \o Str("b")

AllCached(cache, texts, targetLang, sourceLang) ==
    \A i \in 1..Len(texts) :
        texts[i] # <<>> =>
            \E row \in cache :
                row.key = texts[i] \o Str(":") \o sourceLang \o Str(":")
                          \o (IF targetLang = Str("de-AT") THEN Str("de")
                              ELSE targetLang)

IssuedSession(sess) ==
    \E c \in Customers : sess = [LoginSession(c, CustomerEmail(c))
                                    EXCEPT !.hasExpiresAt = sess.hasExpiresAt,
                                           !.expiresAt = sess.expiresAt]

\* C12: the calculations route returns only calculations whose
\* clientEntityId equals the session's customerId or whose client name
\* matches the session's customerName, also when a projectId is given.
C12_OnlyOwnCalculations ==
    (/\ last.op = "calculations"
     /\ last.status = 200
     /\ IssuedSession(last.session.s))
    => \A i \in 1..Len(last.items) :
          \/ last.items[i].clientEntityId = last.session.s.customerId
          \/ \E a \in attributes :
                /\ a.entity_id = last.items[i].entityId
                /\ a.attribute_name = "calculationData.selectedClient.name"
                /\ Like(a.string_value, last.session.s.customerName)

\* The calculation of an id belongs to the customer of a session: an entity
\* of that id carries the customer's id as clientEntityId or a client name
\* that matches the customer's name.
BelongsTo(sess, calculationId) ==
    \E e \in entities :
        /\ \E a \in attributes : a.entity_id = e.id
              /\ a.attribute_name = "id" /\ a.string_value = calculationId
        /\ \E a \in attributes : a.entity_id = e.id
              /\ \/ /\ a.attribute_name = "clientEntityId"
                    /\ a.string_value \in {sess.customerId,
                                           sess.customerEntityId}
                 \/ /\ a.attribute_name = "calculationData.selectedClient.name"
                    /\ \/ Like(a.string_value, sess.customerName)
                       \/ Like(sess.customerName, a.string_value)

\* C13: the respond-waiting route writes a client response to a share only
\* if the calculation named in the path belongs to the session's customer.
C13_RespondOnlyOwn ==
    [][ (/\ last'.op = "respond-waiting"
         /\ shares' # shares
         /\ IssuedSession(last'.session.s))
        => BelongsTo(last'.session.s, last'.id) ]_vars

\* C14: the last response wins.  For a calculation whose entity
\* updateQuoteResponse finds, every call on an unexpired share returns true,
\* whatever the share's status; a call with approved, rejected or
\* requested_changes leaves the approvalStatus mapped from its action, and a
\* question leaves the approvalStatus of the most recent such call.
C14_LastResponseWins ==
    [][ \A i \in DOMAIN shares :
          (/\ last'.op = "updateQuoteResponse"
           /\ i \in RowsOf(shares, last'.calculationId, last'.token)
           /\ (shares[i].expires_at = 0
               \/ shares[i].expires_at >= now \div 1000))
          => /\ last'.ret
             /\ \A e \in CalcEntities(entities, attributes,
                            EAV_TABLES.calculations, last'.calculationId) :
                   ApprovalStatusIn(attributes', e) =
                      CASE last'.action = "approved"
                             -> {Str("CLIENT_APPROVED")}
                        [] last'.action = "rejected"
                             -> {Str("CLIENT_REJECTED")}
                        [] last'.action = "requested_changes"
                             -> {Str("CLIENT_REQUESTED_CHANGES")}
                        [] OTHER -> ApprovalStatusIn(attributes, e) ]_vars

\* Witness of C14: the client approved the quotation k1 and then rejected
\* it with the same token; the second call returned true and the
\* calculation is CLIENT_REJECTED.
C14_Witness ==
    /\ last.op = "updateQuoteResponse"
    /\ last.calculationId = Str("k1")
    /\ last.token = Str("tok1")
    /\ last.action = "rejected"
    /\ last.ret
    /\ Len(activities) = 2
    /\ activities[1].action = "client_approved"
    /\ activities[1].calculation_id = Str("k1")
    /\ activities[2].action = "client_rejected"
    /\ ApprovalStatusIn(attributes, 1) = {Str("CLIENT_REJECTED")}
    /\ shares[1].status = "active"

\* C15: when two updateQuoteResponse calls with different actions on the
\* same share have run with their statements interleaved, the share's
\* client_response and the calculation's approvalStatus come from the same
\* call, and the entity has exactly one approvalStatus attribute row.
C15_RaceConsistent ==
    \A p, q \in DOMAIN inflight :
        (/\ p # q
         /\ Len(inflight) = 2
         /\ inflight[p].pc = "done" /\ inflight[q].pc = "done"
         /\ inflight[p].ret /\ inflight[q].ret
         /\ inflight[p].calculationId = inflight[q].calculationId
         /\ inflight[p].token = inflight[q].token
         /\ inflight[p].action # inflight[q].action
         /\ inflight[p].action # "question_received"
         /\ inflight[q].action # "question_received")
        => \A e \in CalcEntities(entities, attributes, EAV_TABLES.calculations,
                                 inflight[p].calculationId) :
              /\ Cardinality({a \in attributes :
                                 a.entity_id = e
                                 /\ a.attribute_name = "approvalStatus"}) = 1
              /\ \E w \in {p, q} :
                    /\ \A i \in RowsOf(shares, inflight[w].calculationId,
                                       inflight[w].token) :
                          shares[i].client_response = inflight[w].action
                    /\ \A a \in attributes :
                          (a.entity_id = e
                           /\ a.attribute_name = "approvalStatus")
                          => \/ /\ inflight[w].action = "approved"
                                /\ a.string_value = Str("CLIENT_APPROVED")
                             \/ /\ inflight[w].action = "rejected"
                                /\ a.string_value = Str("CLIENT_REJECTED")
                             \/ /\ inflight[w].action = "requested_changes"
                                /\ a.string_value
                                      = Str("CLIENT_REQUESTED_CHANGES")

\* C16: for a client that starts with no project, once the order requests
\* of that client, sequential or interleaved, have all been answered,
\* exactly one project entity carries the client's clientEntityId.
C16_OneProject ==
    (/\ inflight # <<>>
     /\ \A p \in DOMAIN inflight :
           /\ "customerId" \in DOMAIN inflight[p]
           /\ inflight[p].pc = "done")
    => \A p \in DOMAIN inflight :
          Cardinality({e \in entities :
              /\ e.table_id = PROJECTS_TABLE_ID
              /\ \E a \in attributes :
                    /\ a.entity_id = e.id
                    /\ a.attribute_name = "clientEntityId"
                    /\ a.string_value = inflight[p].customerId}) = 1

\* The candidates of computeBaseProductTotal in the order of the claim.
Candidates(p) ==
    << p.totalSale, p.originalSalePrice, p.finalPrice, p.price,
       OrElse(p.unitSalePrice, p.unitPrice) * p.quantity, p.basePrice >>

FirstPositive(c) ==
    IF \E i \in DOMAIN c : c[i] > 0
    THEN c[CHOOSE i \in DOMAIN c : c[i] > 0 /\ \A j \in 1..(i - 1) : c[j] <= 0]
    ELSE 0

\* C18 as stated: computeBaseProductTotal returns the combined multiplier
\* times the first positive candidate among totalSale, originalSalePrice,
\* finalPrice, price, (unitSalePrice or unitPrice) x quantity and basePrice,
\* and 0 when no candidate is positive.
C18_FirstPositiveCandidate ==
    last.op = "computeBaseProductTotal"
    => last.ret = OrElse(last.globalPricing.clientMultiplier, 1)
                    * OrElse(last.globalPricing.deliveryMultiplier, 1)
                    * FirstPositive(Candidates(last.p))

\* C18 amended: the candidates are read in pairs, the first non-zero field
\* of a pair standing for the pair (totalSale before originalSalePrice,
\* finalPrice before price, unitSalePrice before unitPrice); the result is
\* the combined multiplier times the first pair value that is positive, the
\* unit price being multiplied by the quantity or by 1 when the quantity is
\* 0 or missing; when no pair value is positive the result is the combined
\* multiplier times basePrice, whatever its sign.
C18_PairwiseCandidates ==
    last.op = "computeBaseProductTotal"
    => LET p == last.p
           m == (IF last.globalPricing.clientMultiplier = 0 THEN 1
                 ELSE last.globalPricing.clientMultiplier)
                * (IF last.globalPricing.deliveryMultiplier = 0 THEN 1
                   ELSE last.globalPricing.deliveryMultiplier)
           sale == IF p.totalSale = 0 THEN p.originalSalePrice ELSE p.totalSale
           product == IF p.finalPrice = 0 THEN p.price ELSE p.finalPrice
           unit == IF p.unitSalePrice = 0 THEN p.unitPrice ELSE p.unitSalePrice
           count == IF p.quantity = 0 THEN 1 ELSE p.quantity
       IN  /\ sale > 0 => last.ret = m * sale
           /\ (sale <= 0 /\ product > 0) => last.ret = m * product
           /\ (sale <= 0 /\ product <= 0 /\ unit > 0)
                 => last.ret = m * unit * count
           /\ (sale <= 0 /\ product <= 0 /\ unit <= 0)
                 => last.ret = m * p.basePrice

\* A product without sale and product price, a unit price and quantity 0,
\* priced with both multipliers given.
C18_Witness ==
    /\ last.op = "computeBaseProductTotal"
    /\ last.p.totalSale = 0 /\ last.p.originalSalePrice = 0
    /\ last.p.finalPrice = 0 /\ last.p.price = 0
    /\ last.p.unitSalePrice = 0 /\ last.p.unitPrice = 1
    /\ last.p.quantity = 0 /\ last.p.basePrice = 0
    /\ last.globalPricing.clientMultiplier = 2
    /\ last.globalPricing.deliveryMultiplier = 2
    /\ last.ret = 4

\* C17: in the quotation PDF the subtotal shown (globalTotal) equals the
\* sum of the totals of the listed line items (both over the denominator
\* of the markup ratio).
C17_SubtotalIsSumOfItems ==
    last.op = "pdfPrices"
    => last.ret.globalTotal = SumOver(last.ret.allItems, LAMBDA item : item.total)

\* The value a row stores: the one typed column that is not NULL.
Stored(row) ==
    CHOOSE v \in {row.string_value, row.number_value, row.boolean_value,
                  row.date_value, row.json_value} : v # SqlNull

\* C19: for every attribute row of a requested entity in which one typed
\* column holds the value (the last such row of its attribute name),
\* getBatchEavEntityData and getCalculationById map the attribute name to
\* exactly the stored value.
C19_KeepsStoredValue ==
    last.op \in {"getBatchEavEntityData", "getCalculationById"}
    => \A i \in DOMAIN last.rows :
          LET row == last.rows[i]
          IN  (/\ row.entity_id \in last.entityIds
               /\ \A j \in DOMAIN last.rows :
                     (j > i /\ last.rows[j].entity_id = row.entity_id)
                     => last.rows[j].attribute_name # row.attribute_name)
              => /\ row.entity_id \in DOMAIN last.ret
                 /\ row.attribute_name \in DOMAIN last.ret[row.entity_id]
                 /\ last.ret[row.entity_id][row.attribute_name] = Stored(row)


====
